---- MODULE Spec2Model ----
(***************************************************************************)
(* State machine of ruedigerc_v7.py: the X-Touch Extender <-> Behringer    *)
(* Wing <-> DMX bridge.  Three threads run against the shared channel      *)
(* table: the reconciliation loop (sync_loop), the MIDI input callback     *)
(* (_input_callback with the handlers on_fader / on_button / on_encoder)   *)
(* and the main loop (periodic check_connection).  A thread takes one step *)
(* per blocking point: a console query is a send step (under the socket    *)
(* lock) and a receive step; the code between two blocking points belongs  *)
(* to the receive step that precedes it.                                   *)
(*                                                                         *)
(* Units: fader positions are integers 0..1000, gains are tenths of a dB.  *)
(***************************************************************************)
EXTENDS Integers, Sequences, FiniteSets, TLC

\* ------------------------------------------------------------ constants
FADER_MIN == 0
FADER_MAX == 1000
FADER_DEADBAND == 15
GAIN_MIN == -25
GAIN_MAX == 450
GAIN_STEP == 10
GAIN_SYNC_DELTA == 5
HEARTBEAT_TIMEOUT == 5
MAX_RECONNECT_ATTEMPTS == 5
MAX_SYNC_RETRIES == 3
PITCH_OFFSET == 8192
PITCH_SPAN == 16383
NumStrips == 8
NumTestPaths == 4

\* Optional[...] = None, and a reply the parser raises on (float infinity)
NoneVal == -99999
InfVal == 99999

\* ------------------------------------------------------------ bounds
MaxLive == 1      \* strips whose console values / surface controls vary in a run
MaxMidi == 2      \* inbound MIDI messages in a run
MaxTicks == 3     \* iterations of sync_loop in a run
MaxFailed == 5    \* consecutive query timeouts the network produces
\* seconds the clock counts past the last inbound MIDI message
MaxAge == 6
MaxDmx == 10      \* lighting channels: those of the 8 faders and 2 of the others

Strips == 1..NumStrips
Threads == {"sync", "midi", "main"}

\* values the environment produces
FaderReplies == {0, 500, 510, 516}
PitchRaw == {-8192, -7950, -7940, 8191}
GainReplies == {-50, 0, 445, 600}
EncoderRaw == {0, 1, 64, 127}
Groups == {1}        \* input groups, numbered: 1 = "LCL"
SourceNums == {1}

Abs(x) == IF x < 0 THEN -x ELSE x
Min(a, b) == IF a < b THEN a ELSE b
Max(a, b) == IF a > b THEN a ELSE b

VARIABLES
    selected_page,        \* XTouchExtender.selected_page
    channels,             \* XTouchExtender.channels : 1..8 -> ChannelState
    xt_connected,         \* XTouchExtender._connected
    xt_inport,            \* XTouchExtender.inport is not None
    xt_outport,           \* XTouchExtender.outport is not None
    xt_age,               \* time.time() - _last_midi_received, in seconds
    xtouch_reconnect_attempts,  \* main's local counter
    socket_lock,          \* WingControl._socket_lock : holder or "none"
    inflight,             \* threads between sendto and the end of recvfrom
    late,                 \* datagrams waiting in the query socket's buffer (0/1)
    failed_queries,       \* WingControl._failed_queries
    connection_ok,        \* WingControl._connection_ok
    working_query_path,   \* WingControl._working_query_path (0 = None)
    dmx_open,             \* DMXController.ser is open
    dmx_stored_values,    \* DMXController.dmx_stored_values
    pc,                   \* per thread: position in its code
    idx,                  \* per thread: loop variable (ch / i)
    src,                  \* per thread: local routing result (grp, num)
    cc_i,                 \* per thread: check_connection's position
    tick_page,            \* sync_loop's local `page`
    consecutive_errors,   \* sync_loop's local counter
    enc_delta,            \* on_encoder's argument delta
    out,                  \* calls and observations of the last step
    live,                 \* strips the environment exercises
    midi_left,            \* MIDI messages still to come
    ticks_left,           \* iterations of sync_loop still to come
    net,                  \* the network of this run: 0 every reply in time,
                          \* 1 replies may be lost, 2 and may arrive late
    xt_available,         \* a MIDI port of the surface is listed and opens
    set_wing_fader,       \* sync_loop's local wing_fader, between its
                          \* device.set_fader and the two assignments
    echo,                 \* pitch-bend messages the motor faders still owe
    sent_fader            \* per strip: the position the last set_fader sent
                          \* to its motor fader (NoneVal before the first),
                          \* or <<>> in a run that does not keep this record

clientVars == <<socket_lock, inflight, late, failed_queries, connection_ok,
                working_query_path>>
dmxVars == <<dmx_open, dmx_stored_values>>
xtVars == <<xt_connected, xt_inport, xt_outport, xt_age,
           xtouch_reconnect_attempts>>
envVars == <<live, midi_left, ticks_left, net, xt_available>>
echoVars == <<set_wing_fader, echo, sent_fader>>
vars == <<selected_page, channels, xt_connected, xt_inport, xt_outport,
          xt_age, xtouch_reconnect_attempts, socket_lock,
          inflight, late, failed_queries, connection_ok, working_query_path,
          dmx_open, dmx_stored_values, pc, idx, src, cc_i, tick_page,
          consecutive_errors, enc_delta, out, live, midi_left, ticks_left,
          net, xt_available, set_wing_fader, echo, sent_fader>>

\* ------------------------------------------------------------ data
ChannelState == [fader_value |-> 0, last_stable_value |-> 0,
                 is_muted |-> FALSE, is_touched |-> FALSE, gain_db |-> 0]

NoSource == [grp |-> 0, num |-> 0]

\* one call or observation of a step
Ev(op, by, k, n, v) == [op |-> op, by |-> by, k |-> k, n |-> n, v |-> v]

\* the strip decision of a reconciliation step: remote value and the strip
\* fields before the step
Recon(ch, r, oldf, olds) ==
    [op |-> "recon", by |-> "sync", k |-> "strip", n |-> ch, v |-> r,
     old_fader |-> oldf, old_stable |-> olds]

Clamp(lo, hi, x) == Max(lo, Min(hi, x))

\* XTouchExtender.set_fader as the surface sees it: after the calls evs of
\* a step each motor fader holds the position of the last set_fader for it
SentAfter(evs) ==
    IF sent_fader = <<>> THEN <<>>
    ELSE [c \in Strips |->
            LET s == {i \in DOMAIN evs :
                         evs[i].op = "set_fader" /\ evs[i].n = c}
            IN  IF s = {} THEN sent_fader[c]
                ELSE evs[CHOOSE i \in s : \A j \in s : j <= i].v]

Sent == sent_fader' = SentAfter(out')

\* ------------------------------------------------------------ page maps
\* the console target sync_loop reads for (page, ch); k = "" for none
SyncTarget(page, ch) ==
    IF page = 0 /\ ch <= 4 THEN [k |-> "ch", n |-> ch]
    ELSE IF page = 0 /\ ch \in 5..7 THEN [k |-> "mtx", n |-> ch - 4]
    ELSE IF page = 1 THEN [k |-> "ch", n |-> ch + 8]
    ELSE IF page = 2 THEN [k |-> "ch", n |-> ch + 16]
    ELSE [k |-> "", n |-> 0]

\* last strip sync_loop visits on a page (0 = none)
SyncLast(page) ==
    IF page = 0 THEN 7 ELSE IF page \in {1, 2} THEN 8 ELSE 0

\* the lighting channels sync_loop reads for (page, ch): on page 0 the
\* average of channels 1..4 for strip 8, and no page 3 branch
SyncLight(page, ch) ==
    IF page = 0 /\ ch = 8 THEN 1..4 ELSE {}

\* the console channel whose input gain a strip shows (0 = none)
GainChannel(page, ch) ==
    IF page = 0 /\ ch <= 4 THEN ch
    ELSE IF page = 1 THEN ch + 8
    ELSE IF page = 2 THEN ch + 16
    ELSE 0

\* last strip sync_gain_for_page visits on a page (0 = none)
GainLast(page) ==
    IF page = 0 THEN 4 ELSE IF page \in {1, 2} THEN 8 ELSE 0

\* int((gain / GAIN_MAX) * 11): truncation toward zero
RingValue(gain) ==
    IF gain >= 0 THEN (gain * 11) \div GAIN_MAX
    ELSE -((-gain * 11) \div GAIN_MAX)

\* the channels of `for i in range (1, 513,1)`, as far as a run follows them
DmxChannels == 1..MaxDmx

\* DMXController.getSaallicht
getSaallicht ==
    (dmx_stored_values[1] + dmx_stored_values[2] + dmx_stored_values[3]
     + dmx_stored_values[4]) \div 4

\* DMXController.getDMX
getDMX(c) ==
    IF 0 <= dmx_stored_values[c] /\ dmx_stored_values[c] <= 1000
    THEN dmx_stored_values[c] ELSE 0

\* is_connected without the heartbeat test
is_connected_by_ports ==
    xt_connected /\ xt_inport /\ xt_outport

\* XTouchExtender.is_connected
is_connected ==
    IF xt_age > HEARTBEAT_TIMEOUT THEN FALSE
    ELSE xt_connected /\ xt_inport /\ xt_outport

\* ------------------------------------------------------------ fader curve
\* dB values are integers in units of 1e-5 dB: a = -6e-05, b = 0.1359 and
\* c = -62.895 become -6, 13590 and -6289500 and the quadratic is exact
CURVE_A == -6
CURVE_B == 13590
CURVE_C == -6289500
FADER_SILENT_THRESHOLD == 5
SILENT_DB == -14400000
QUIET_DB == -9000000

\* the reply '-oo', which is no number
MinusOo == -99999999

\* the rounding of a dB value on the wire (a 32-bit OSC float) and in the
\* double arithmetic, in units of 1e-5 dB
FloatErr == 1

\* setFader with a threshold that still converts position 5
setFaderDbStrict(fader_1000) ==
    LET pos == Clamp(FADER_MIN, FADER_MAX, fader_1000)
    IN  IF pos < FADER_SILENT_THRESHOLD THEN SILENT_DB
        ELSE CURVE_A * pos * pos + CURVE_B * pos + CURVE_C

\* WingControl.setFader: the dB value sent for a position
setFaderDb(fader_1000) ==
    LET pos == Clamp(FADER_MIN, FADER_MAX, fader_1000)
    IN  IF pos <= FADER_SILENT_THRESHOLD THEN SILENT_DB
        ELSE CURVE_A * pos * pos + CURVE_B * pos + CURVE_C

\* discriminant = b**2 - 4*a*(c - y), in units of 1e-10
Discriminant(y) == CURVE_B * CURVE_B - 4 * CURVE_A * (CURVE_C - y)

\* int(max(FADER_MIN, min(FADER_MAX, (-b + sqrt(d)) / (2*a)))): with a < 0
\* the quotient is (b - sqrt(d)) / (-2a), and it is at least k exactly when
\* d <= (b + 2*a*k)^2
CurveRoot(d) ==
    IF d > CURVE_B * CURVE_B THEN FADER_MIN
    ELSE CHOOSE k \in FADER_MIN..FADER_MAX :
             /\ d <= (CURVE_B + 2 * CURVE_A * k) * (CURVE_B + 2 * CURVE_A * k)
             /\ \/ k = FADER_MAX
                \/ d > (CURVE_B + 2 * CURVE_A * (k + 1))
                          * (CURVE_B + 2 * CURVE_A * (k + 1))

\* getFader with 2*a for 4*a in the discriminant
getFaderHalf(raw_val) ==
    IF raw_val = MinusOo THEN 0
    ELSE IF raw_val <= QUIET_DB THEN 0
    ELSE IF CURVE_B * CURVE_B - 2 * CURVE_A * (CURVE_C - raw_val) < 0 THEN 0
    ELSE CurveRoot(CURVE_B * CURVE_B - 2 * CURVE_A * (CURVE_C - raw_val))

\* WingControl.getFader: the position for a reply
getFader(raw_val) ==
    IF raw_val = MinusOo THEN 0
    ELSE IF raw_val <= QUIET_DB THEN 0
    ELSE IF Discriminant(raw_val) < 0 THEN 0
    ELSE CurveRoot(Discriminant(raw_val))

\* ------------------------------------------------------------ console queries
\* WingControl._query, first half: take the lock and send
LockFree(t) == socket_lock = "none"

QuerySend(t) ==
    /\ t \notin inflight
    /\ LockFree(t)
    /\ socket_lock' = t
    /\ inflight' = inflight \cup {t}

\* WingControl._query, second half: recvfrom on the persistent socket.
\* A datagram already in the buffer is returned at once, whichever query it
\* answers (how = "stale"); otherwise the reply arrives in time or the
\* 0.3 s timeout expires, and the reply may still arrive afterwards.
Outcomes(vals) ==
    IF late > 0
    THEN {[val |-> v, how |-> "stale", late |-> l] :
              v \in vals, l \in {late - 1, late}}
    ELSE {[val |-> v, how |-> "reply", late |-> 0] : v \in vals}
         \cup (IF net >= 1 /\ failed_queries < MaxFailed
               THEN {[val |-> NoneVal, how |-> "timeout", late |-> l] :
                         l \in IF net = 2 THEN {0, 1} ELSE {0}}
               ELSE {})

\* a receive that counts the timeouts and never starts again at 0
QueryRecvCount(t, o) ==
    /\ t \in inflight
    /\ socket_lock' = "none"
    /\ inflight' = inflight \ {t}
    /\ late' = o.late
    /\ failed_queries' = IF o.how = "timeout" THEN failed_queries + 1
                          ELSE failed_queries
    /\ connection_ok' = IF o.how = "timeout" THEN connection_ok ELSE TRUE

QueryRecv(t, o) ==
    /\ t \in inflight
    /\ socket_lock' = "none"
    /\ inflight' = inflight \ {t}
    /\ late' = o.late
    /\ failed_queries' = IF o.how = "timeout" THEN failed_queries + 1 ELSE 0
    /\ connection_ok' = IF o.how = "timeout" THEN connection_ok ELSE TRUE

\* a finished query: address kind a, console number n, for strip ch; how the
\* datagram it consumed came (reply / timeout / stale) and what it carried
Q(t, o, a, n, ch) ==
    [op |-> "query", by |-> t, k |-> a, n |-> n, v |-> o.val, how |-> o.how,
     ch |-> ch]

\* address kinds of the fader and mute queries of a target
Fdr(tgt) == IF tgt.k = "mtx" THEN "mtx_fdr" ELSE "ch_fdr"
Mute(tgt) == IF tgt.k = "mtx" THEN "mtx_mute" ELSE "ch_mute"

\* WingControl.getFader: the raw reply converted to a position, or None
FaderVals(ch) ==
    IF ch \in live THEN FaderReplies ELSE {channels[ch].fader_value}

\* WingControl.getMute: 0 / 1, or a reply int(float(val)) raises on
MuteVals(ch) == IF ch \in live THEN {0, 1, InfVal} ELSE {0}

getMute(val) == IF val = NoneVal THEN FALSE ELSE val > 0

\* WingControl.getGain
GainVals(ch) ==
    IF ch \in live THEN GainReplies ELSE {channels[ch].gain_db}

getGain(val) == IF val = NoneVal THEN NoneVal ELSE Clamp(GAIN_MIN, GAIN_MAX, val)

\* WingControl.setGain: the value sent
setGain(gain_db) == Clamp(GAIN_MIN, GAIN_MAX, gain_db)

Goto(t, at, i) == pc' = [pc EXCEPT ![t] = at] /\ idx' = [idx EXCEPT ![t] = i]

\* ------------------------------------------------------------ init
\* the state when main() has started the sync thread: check_connection has
\* found a working path, the surface is open, the lighting link is open or
\* not, the
\* gains of the input strips have been read; a page other than 0 is the
\* state after a select press whose refresh found every strip at 0
StartSent(nets, lives, pages, midi, ticks, links, sents) ==
    /\ selected_page \in pages
    /\ live \in lives
    /\ channels \in {[c \in Strips |->
                        [ChannelState EXCEPT !.gain_db =
                            IF c \in live /\ c <= 4 THEN g ELSE 0]] :
                     g \in {0} \cup {getGain(v) : v \in GainReplies}}
    /\ xt_connected = TRUE
    /\ xt_inport = TRUE
    /\ xt_outport = TRUE
    /\ xt_age = 0
    /\ xtouch_reconnect_attempts = 0
    /\ socket_lock = "none"
    /\ inflight = {}
    /\ late = 0
    /\ failed_queries = 0
    /\ connection_ok = TRUE
    /\ working_query_path = 1
    /\ dmx_open \in links
    /\ dmx_stored_values = [c \in DmxChannels |-> 0]
    /\ pc = [t \in Threads |-> "sleep"]
    /\ idx = [t \in Threads |-> 0]
    /\ src = [t \in Threads |-> NoSource]
    /\ cc_i = [t \in Threads |-> 0]
    /\ tick_page = 0
    /\ consecutive_errors = 0
    /\ enc_delta = 0
    /\ out = <<>>
    /\ midi_left = midi
    /\ ticks_left = ticks
    /\ net \in nets
    /\ xt_available = TRUE
    /\ set_wing_fader = NoneVal
    /\ echo = {}
    /\ sent_fader \in sents

\* the same state in a run that keeps no record of the motor faders
StartLink(nets, lives, pages, midi, ticks, links) ==
    StartSent(nets, lives, pages, midi, ticks, links, {<<>>})

\* the state after main()'s setup with the lighting link open
Start(nets, lives, pages, midi, ticks) ==
    StartLink(nets, lives, pages, midi, ticks, {TRUE})

LiveSets == {s \in SUBSET Strips : Cardinality(s) = MaxLive}

\* ------------------------------------------------------------ shared steps
\* any thread at a query: sendto under the lock
QueryPcs == {"gain_grp", "gain_in", "gain_g", "fader_q", "mute", "check",
             "enc_grp", "enc_in", "mute_q", "sel_fader", "sel_mute",
             "sel_grp", "sel_in", "sel_g"}

Send(t) ==
    /\ pc[t] \in QueryPcs
    /\ QuerySend(t)
    /\ out' = <<>>
    /\ UNCHANGED <<selected_page, channels, xtVars, late, failed_queries,
                   connection_ok, working_query_path, dmxVars, pc, idx, src,
                   cc_i, tick_page, consecutive_errors, enc_delta, envVars, echoVars>>

\* ------------------------------------------------------------ sync_loop
\* end of a tick that leaves the counter as it is
TickDoneKeep(evs) ==
    /\ UNCHANGED consecutive_errors
    /\ Goto("sync", "sleep", 0)
    /\ out' = evs
    /\ UNCHANGED cc_i

\* end of a tick that raised nothing
TickDone(evs) ==
    /\ consecutive_errors' = 0
    /\ Goto("sync", "sleep", 0)
    /\ out' = evs
    /\ UNCHANGED cc_i

\* except Exception: in sync_loop
TickRaised(evs) ==
    /\ out' = IF consecutive_errors + 1 >= MAX_SYNC_RETRIES
              THEN evs \o <<Ev("check_connection", "sync", "", 0, 0)>>
              ELSE evs
    /\ consecutive_errors' = consecutive_errors + 1
    /\ IF consecutive_errors + 1 >= MAX_SYNC_RETRIES
       THEN /\ Goto("sync", "check", 0)
            /\ cc_i' = [cc_i EXCEPT !["sync"] =
                            IF working_query_path # 0 THEN 0 ELSE 1]
       ELSE /\ Goto("sync", "sleep", 0)
            /\ UNCHANGED cc_i

\* while True: ... page = device.selected_page
SyncTick ==
    /\ pc["sync"] = "sleep"
    /\ ticks_left > 0
    /\ ticks_left' = ticks_left - 1
    /\ IF ~is_connected
       THEN /\ out' = <<>>
            /\ UNCHANGED <<pc, idx, cc_i, tick_page, consecutive_errors>>
       ELSE /\ tick_page' = selected_page
            /\ IF GainLast(selected_page) > 0
               THEN /\ Goto("sync", "gain_grp", 1)
                    /\ out' = <<>>
                    /\ UNCHANGED <<cc_i, consecutive_errors>>
               ELSE TickDone(<<>>)
    /\ UNCHANGED <<selected_page, channels, xtVars, clientVars, dmxVars, src,
                   enc_delta, live, midi_left, net, xt_available,
                   echoVars>>

\* after one strip of sync_gain_for_page
SyncGainNext ==
    IF idx["sync"] < GainLast(tick_page)
    THEN Goto("sync", "gain_grp", idx["sync"] + 1)
    ELSE Goto("sync", "fader", 1)

\* getChannelInputSource: grp = self._query(grp_address)
SyncGainGrp ==
    /\ pc["sync"] = "gain_grp"
    /\ \E o \in Outcomes(Groups) :
        /\ QueryRecv("sync", o)
        /\ src' = [src EXCEPT !["sync"] =
                      [grp |-> IF o.val = NoneVal THEN 0 ELSE o.val, num |-> 0]]
        /\ out' = <<Q("sync", o, "grp", GainChannel(tick_page, idx["sync"]),
                      idx["sync"])>>
    /\ Goto("sync", "gain_in", idx["sync"])
    /\ UNCHANGED <<working_query_path, selected_page, channels, xtVars, dmxVars, cc_i, tick_page,
                   consecutive_errors, enc_delta, envVars, echoVars>>

\* in_num = self._query(in_address); return (str(grp), int(float(in_num)))
SyncGainIn ==
    /\ pc["sync"] = "gain_in"
    /\ \E o \in Outcomes(SourceNums \cup
                          (IF idx["sync"] \in live THEN {InfVal} ELSE {})) :
        /\ QueryRecv("sync", o)
        /\ out' = <<Q("sync", o, "in", GainChannel(tick_page, idx["sync"]),
                      idx["sync"])>>
        /\ IF src["sync"].grp = 0 \/ o.val = NoneVal
           THEN SyncGainNext /\ UNCHANGED src
           ELSE IF o.val = InfVal
           THEN Goto("sync", "fader", 1) /\ UNCHANGED src
           ELSE /\ src' = [src EXCEPT !["sync"].num = o.val]
                /\ Goto("sync", "gain_g", idx["sync"])
    /\ UNCHANGED <<working_query_path, selected_page, channels, xtVars, dmxVars, cc_i, tick_page,
                   consecutive_errors, enc_delta, envVars, echoVars>>

\* gain = wing.getGain(grp, num); mirror to the ring when it moved by > 0.5 dB
\* a comparison that also takes a difference of exactly 0.5 dB
GainDiffersInclusive(gain, ch) ==
    /\ gain # NoneVal
    /\ Abs(gain - channels[ch].gain_db) >= GAIN_SYNC_DELTA

\* gain is not None and abs(gain - device.channels[ch].gain_db) > 0.5
GainDiffers(gain, ch) ==
    /\ gain # NoneVal
    /\ Abs(gain - channels[ch].gain_db) > GAIN_SYNC_DELTA

SyncGainG ==
    /\ pc["sync"] = "gain_g"
    /\ \E o \in Outcomes(GainVals(idx["sync"])) :
        LET ch == idx["sync"]
            gain == getGain(o.val)
            q == Q("sync", o, "gain", src["sync"].num, ch)
        IN  /\ QueryRecv("sync", o)
            /\ IF GainDiffers(gain, ch)
               THEN /\ channels' = [channels EXCEPT ![ch].gain_db = gain]
                    /\ out' = <<q, Ev("write_gain", "sync", "strip", ch, gain),
                                Ev("set_encoder_ring", "sync", "strip", ch,
                                   RingValue(gain))>>
               ELSE /\ UNCHANGED channels
                    /\ out' = <<q>>
    /\ SyncGainNext
    /\ UNCHANGED <<working_query_path, selected_page, xtVars, dmxVars, src, cc_i, tick_page,
                   consecutive_errors, enc_delta, envVars, echoVars>>

\* if not device.channels[ch].is_touched:
SyncFaderCheck ==
    /\ pc["sync"] = "fader"
    /\ IF channels[idx["sync"]].is_touched
       THEN Goto("sync", "mute", idx["sync"])
       ELSE Goto("sync", "fader_q", idx["sync"])
    /\ out' = <<>>
    /\ UNCHANGED <<selected_page, channels, xtVars, clientVars, dmxVars, src,
                   cc_i, tick_page, consecutive_errors, enc_delta, envVars, echoVars>>

\* the body of `if wing_fader is not None:` in sync_loop
SyncApplyFader(ch, wing_fader, q) ==
    LET current == channels[ch].fader_value
        obs == Recon(ch, wing_fader, current, channels[ch].last_stable_value)
        wr == Ev("write_strip", "sync", "strip", ch, wing_fader)
    IN  /\ channels' = [channels EXCEPT ![ch].fader_value = wing_fader,
                                        ![ch].last_stable_value = wing_fader]
        /\ out' = IF Abs(wing_fader - current) > FADER_DEADBAND
                  THEN <<q, obs,
                         Ev("set_fader", "sync", "strip", ch, wing_fader), wr>>
                  ELSE <<q, obs, wr>>

\* wing_fader = wing.getFader(...)
SyncFader ==
    /\ pc["sync"] = "fader_q"
    /\ \E o \in Outcomes(FaderVals(idx["sync"])) :
        LET tgt == SyncTarget(tick_page, idx["sync"])
            q == Q("sync", o, Fdr(tgt), tgt.n, idx["sync"])
        IN  /\ QueryRecv("sync", o)
            /\ IF o.val # NoneVal
               THEN SyncApplyFader(idx["sync"], o.val, q)
               ELSE out' = <<q>> /\ UNCHANGED channels
    /\ Goto("sync", "mute", idx["sync"])
    /\ UNCHANGED <<working_query_path, selected_page, xtVars, dmxVars, src, cc_i, tick_page,
                   consecutive_errors, enc_delta, envVars, set_wing_fader, echo>>
    /\ Sent

\* the same line with the thread's next two statements apart from it:
\* device.set_fader(ch, wing_fader) sends the pitch-bend message, which the
\* motor fader answers with a pitch-bend message of its own for the position
\* it was last sent to, and the assignments to fader_value and
\* last_stable_value are a later step
SyncFaderMove ==
    /\ pc["sync"] = "fader_q"
    /\ \E o \in Outcomes(FaderVals(idx["sync"])) :
        LET ch == idx["sync"]
            tgt == SyncTarget(tick_page, ch)
            q == Q("sync", o, Fdr(tgt), tgt.n, ch)
            current == channels[ch].fader_value
        IN  /\ QueryRecv("sync", o)
            /\ IF o.val = NoneVal
               THEN /\ out' = <<q>>
                    /\ Goto("sync", "mute", ch)
                    /\ UNCHANGED <<channels, set_wing_fader, echo>>
               ELSE IF Abs(o.val - current) > FADER_DEADBAND
               THEN /\ out' = <<q, Recon(ch, o.val, current,
                                         channels[ch].last_stable_value),
                                Ev("set_fader", "sync", "strip", ch, o.val)>>
                    /\ set_wing_fader' = o.val
                    /\ echo' = {e \in echo : e.ch # ch}
                                   \cup {[ch |-> ch, v |-> o.val]}
                    /\ Goto("sync", "fader_store", ch)
                    /\ UNCHANGED channels
               ELSE /\ SyncApplyFader(ch, o.val, q)
                    /\ Goto("sync", "mute", ch)
                    /\ UNCHANGED <<set_wing_fader, echo>>
    /\ UNCHANGED <<working_query_path, selected_page, xtVars, dmxVars, src,
                   cc_i, tick_page, consecutive_errors, enc_delta, envVars>>
    /\ Sent

\* device.channels[ch].fader_value = wing_fader and
\* device.channels[ch].last_stable_value = wing_fader
SyncFaderStore ==
    /\ pc["sync"] = "fader_store"
    /\ channels' = [channels EXCEPT
                       ![idx["sync"]].fader_value = set_wing_fader,
                       ![idx["sync"]].last_stable_value = set_wing_fader]
    /\ out' = <<Ev("write_strip", "sync", "strip", idx["sync"],
                 set_wing_fader)>>
    /\ set_wing_fader' = NoneVal
    /\ Goto("sync", "mute", idx["sync"])
    /\ UNCHANGED <<selected_page, xtVars, clientVars, dmxVars, src, cc_i,
                   tick_page, consecutive_errors, enc_delta, envVars, echo>>
    /\ Sent

\* muted = wing.getMute(...); device.set_led(ch, 'mute', muted); the end of
\* the page's loop, and on page 0 device.set_fader(8, dmx.getSaallicht())
SyncMute ==
    /\ pc["sync"] = "mute"
    /\ \E o \in Outcomes(MuteVals(idx["sync"])) :
        LET ch == idx["sync"]
            tgt == SyncTarget(tick_page, ch)
            q == Q("sync", o, Mute(tgt), tgt.n, ch)
            led == Ev("set_led_mute", "sync", "strip", ch,
                      IF getMute(o.val) THEN 1 ELSE 0)
        IN  /\ QueryRecv("sync", o)
            /\ IF o.val = InfVal
               THEN TickRaised(<<q>>)
               ELSE IF ch < SyncLast(tick_page)
               THEN /\ Goto("sync", "fader", ch + 1)
                    /\ out' = <<q, led>>
                    /\ UNCHANGED <<cc_i, consecutive_errors>>
               ELSE IF tick_page = 0
               THEN TickDone(<<q, led, Ev("set_fader", "sync", "strip", 8,
                                          getSaallicht)>>)
               ELSE TickDone(<<q, led>>)
    /\ UNCHANGED <<working_query_path, selected_page, channels, xtVars, dmxVars, src, tick_page,
                   enc_delta, envVars, set_wing_fader, echo>>
    /\ Sent

\* ------------------------------------------------------------ check_connection
\* main(): `for i in range (1, 513,1): dmx.sendDMX(i, 0)` after a failed
\* check; sendDMX does nothing unless the serial link is open
Blackout(result) ==
    IF ~result /\ dmx_open
    THEN [c \in DmxChannels |-> 0]
    ELSE dmx_stored_values

\* what the caller does with check_connection's result; main() then calls
\* dmx.connect(), which opens the link or leaves it as it is
CheckReturn(t, result, evs) ==
    IF t = "sync"
    THEN /\ consecutive_errors' = 0
         /\ out' = evs
         /\ UNCHANGED dmxVars
    ELSE /\ UNCHANGED consecutive_errors
         /\ \E opened \in BOOLEAN :
                /\ dmx_stored_values' = Blackout(result)
                /\ dmx_open' = (dmx_open \/ opened)
                /\ out' = evs
                          \o (IF ~result /\ dmx_open
                              THEN [c \in DmxChannels |->
                                       Ev("dmx_write", t, "dmx", c, 0)]
                              ELSE <<>>)
                          \o <<Ev("dmx_connect", t, "dmx", 0,
                                  IF opened THEN 1 ELSE 0)>>

\* a cache that keeps the path it has
WorkingPathKeep(i) == working_query_path

\* self._working_query_path after path i answered: the cached path (i = 0)
\* returns at once, a test path is stored
WorkingPath(i) == IF i = 0 THEN working_query_path ELSE i

\* result = self._query(path): the cached path (cc_i = 0), then test_paths
CheckQuery(t) ==
    /\ pc[t] = "check"
    /\ \E o \in Outcomes({1}) :
        LET q == Q(t, o, "path", cc_i[t], 0)
        IN  /\ QueryRecv(t, o)
            /\ IF o.val # NoneVal
               THEN /\ working_query_path' = WorkingPath(cc_i[t])
                    /\ Goto(t, "sleep", 0)
                    /\ cc_i' = [cc_i EXCEPT ![t] = 0]
                    /\ CheckReturn(t, TRUE, <<q>>)
               ELSE /\ UNCHANGED <<working_query_path, consecutive_errors,
                                   dmxVars>>
                    /\ out' = <<q>>
                    /\ IF cc_i[t] < NumTestPaths
                       THEN /\ cc_i' = [cc_i EXCEPT ![t] = cc_i[t] + 1]
                            /\ UNCHANGED <<pc, idx>>
                       ELSE /\ Goto(t, "check_reinit", 0)
                            /\ UNCHANGED cc_i
    /\ UNCHANGED <<selected_page, channels, xtVars, src, tick_page, enc_delta,
                   envVars, echoVars>>

\* self._connection_ok = False; self._init_query_socket(); return False
CheckReinit(t) ==
    /\ pc[t] = "check_reinit"
    /\ connection_ok' = FALSE
    /\ late' = 0
    /\ Goto(t, "sleep", 0)
    /\ cc_i' = [cc_i EXCEPT ![t] = 0]
    /\ CheckReturn(t, FALSE, <<Ev("init_query_socket", t, "", 0, 0)>>)
    /\ UNCHANGED <<selected_page, channels, xtVars, socket_lock, inflight,
                   failed_queries, working_query_path, src, tick_page,
                   enc_delta, envVars, echoVars>>

\* main(): the periodic `if not wing.check_connection():`
MainCheck ==
    /\ pc["main"] = "sleep"
    /\ Goto("main", "check", 0)
    /\ cc_i' = [cc_i EXCEPT !["main"] = IF working_query_path # 0 THEN 0 ELSE 1]
    /\ out' = <<Ev("check_connection", "main", "", 0, 0)>>
    /\ UNCHANGED <<selected_page, channels, xtVars, clientVars, dmxVars, src,
                   tick_page, consecutive_errors, enc_delta, envVars, echoVars>>

\* d seconds pass without an inbound MIDI message
TimePasses(steps) ==
    /\ xt_age < MaxAge
    /\ \E d \in steps : xt_age' = Min(MaxAge, xt_age + d)
    /\ out' = <<>>
    /\ UNCHANGED <<selected_page, channels, xt_connected, xt_inport,
                   xt_outport, xtouch_reconnect_attempts, clientVars, dmxVars,
                   pc, idx, src, cc_i, tick_page, consecutive_errors,
                   enc_delta, envVars, echoVars>>

\* ------------------------------------------------------------ MIDI decoding
\* a decoding that leaves the offset out
PitchToFaderSigned(pitch) == (pitch * FADER_MAX) \div PITCH_SPAN

\* val = int((msg.pitch + 8192) / 16383.0 * FADER_MAX)
PitchToFader(pitch) == ((pitch + PITCH_OFFSET) * FADER_MAX) \div PITCH_SPAN

\* a decoding that takes 64 for a negative value
EncoderDeltaSigned(value) ==
    IF value >= 64 THEN value - 128 ELSE value

\* the relative encoder value of a control change
EncoderDelta(value) ==
    IF value > 64 THEN value - 128
    ELSE IF value < 64 THEN value
    ELSE 0

\* every inbound message: self._last_midi_received = time.time()
MidiArrives ==
    /\ pc["midi"] = "sleep"
    /\ midi_left > 0
    /\ xt_inport
    /\ xt_available
    /\ midi_left' = midi_left - 1
    /\ xt_age' = 0
    /\ UNCHANGED <<xt_connected, xt_inport, xt_outport,
                   xtouch_reconnect_attempts, live, ticks_left, net,
                   xt_available, set_wing_fader, echo>>

\* the note messages the surface sends: press, and the two forms of release
NoteMessages ==
    {[type |-> "note_on", velocity |-> 127],
     [type |-> "note_on", velocity |-> 0],
     [type |-> "note_off", velocity |-> 64]}

\* a state that looks at the velocity alone
NoteStateByVelocity(msg) == msg.velocity > 0

\* state = (msg.type == 'note_on' and msg.velocity > 0)
NoteState(msg) == msg.type = "note_on" /\ msg.velocity > 0

\* a note message as the callback saw and decoded it
NoteEv(op, ch, note, msg) ==
    [op |-> op, by |-> "midi", k |-> "strip", n |-> ch,
     v |-> IF NoteState(msg) THEN 1 ELSE 0, note |-> note,
     type |-> msg.type, velocity |-> msg.velocity]

\* note 104..111: self.channels[ch].is_touched = state
MidiTouch ==
    /\ MidiArrives
    /\ \E note \in {c + 103 : c \in live}, msg \in NoteMessages :
        LET ch == note - 103
        IN  /\ channels' = [channels EXCEPT ![ch].is_touched = NoteState(msg)]
            /\ out' = <<NoteEv("touch", ch, note, msg)>>
    /\ UNCHANGED <<selected_page, clientVars, dmxVars, pc, idx, src, cc_i,
                   tick_page, consecutive_errors, enc_delta>>
    /\ Sent

\* ------------------------------------------------------------ on_fader
\* the console target on_fader writes for (page, ch); k = "" for none
FaderTarget(page, ch) ==
    IF page = 0 /\ ch <= 4 THEN [k |-> "ch", n |-> ch]
    ELSE IF page = 0 /\ ch = 5 THEN [k |-> "mtx", n |-> 1]
    ELSE IF page = 0 /\ ch = 6 THEN [k |-> "mtx", n |-> 2]
    ELSE IF page = 0 /\ ch = 7 THEN [k |-> "mtx", n |-> 3]
    ELSE IF page = 1 THEN [k |-> "ch", n |-> ch + 8]
    ELSE IF page = 2 THEN [k |-> "ch", n |-> ch + 16]
    ELSE [k |-> "", n |-> 0]

\* the DMX channels on_fader writes for (page, ch)
FaderDmx(page, ch) ==
    IF page = 0 /\ ch = 8 THEN 1..4
    ELSE IF page = 3 THEN {ch}
    ELSE {}

\* DMXController.sendDMX: int(max(0, min(1000, value_1000)) * 255 / 1000)
DmxByte(value_1000) == (Clamp(0, 1000, value_1000) * 255) \div 1000

\* the calls of on_fader past the deadband filter, in order
FaderCalls(page, ch, val) ==
    LET tgt == FaderTarget(page, ch)
        dmxs == FaderDmx(page, ch)
    IN  (IF tgt.k # ""
         THEN <<Ev("wing_setFader", "midi", tgt.k, tgt.n,
                   Clamp(FADER_MIN, FADER_MAX, val))>>
         ELSE <<>>)
        \o (IF dmx_open
            THEN [i \in 1..Cardinality(dmxs) |->
                     Ev("dmx_write", "midi", "dmx",
                        CHOOSE c \in dmxs :
                            Cardinality({d \in dmxs : d < c}) = i - 1,
                        DmxByte(val))]
            ELSE <<>>)
        \o (IF page = 3
            THEN <<Ev("set_fader", "midi", "strip", ch, val)>>
            ELSE <<>>)

\* on_fader with a filter that also drops a move exactly one deadband away
on_fader_inclusive(ch, val) ==
    LET last_val == channels[ch].last_stable_value
        page == selected_page
        ev == Ev("fader_move", "midi", "strip", ch, val)
    IN  IF Abs(val - last_val) <= FADER_DEADBAND
        THEN /\ out' = <<ev>>
             /\ UNCHANGED <<channels, dmx_stored_values>>
        ELSE /\ channels' = [channels EXCEPT ![ch].last_stable_value = val]
             /\ dmx_stored_values' =
                    [c \in DmxChannels |->
                        IF dmx_open /\ c \in FaderDmx(page, ch)
                        THEN val ELSE dmx_stored_values[c]]
             /\ out' = <<ev>> \o FaderCalls(page, ch, val)

\* on_fader(ch, val)
on_fader(ch, val) ==
    LET last_val == channels[ch].last_stable_value
        page == selected_page
        ev == Ev("fader_move", "midi", "strip", ch, val)
    IN  IF Abs(val - last_val) < FADER_DEADBAND
        THEN /\ out' = <<ev>>
             /\ UNCHANGED <<channels, dmx_stored_values>>
        ELSE /\ channels' = [channels EXCEPT ![ch].last_stable_value = val]
             /\ dmx_stored_values' =
                    [c \in DmxChannels |->
                        IF dmx_open /\ c \in FaderDmx(page, ch)
                        THEN val ELSE dmx_stored_values[c]]
             /\ out' = <<ev>> \o FaderCalls(page, ch, val)

\* how far the position a motor fader reports is from the one it was sent
EchoError == 1

\* _input_callback for the pitch-bend message a motor fader sends after a
\* set_fader: the same branch as for a move by hand
MidiEcho ==
    /\ pc["midi"] = "sleep"
    /\ xt_inport
    /\ xt_available
    /\ \E e \in echo, d \in (-EchoError)..EchoError :
        LET val == Clamp(FADER_MIN, FADER_MAX, e.v + d)
        IN  /\ echo' = echo \ {e}
            /\ IF channels[e.ch].is_touched \/ e.ch \in {5, 7}
               THEN on_fader(e.ch, val)
               ELSE /\ out' = <<Ev("pitchwheel", "midi", "strip", e.ch, val)>>
                    /\ UNCHANGED <<channels, dmx_stored_values>>
    /\ xt_age' = 0
    /\ UNCHANGED <<selected_page, xt_connected, xt_inport, xt_outport,
                   xtouch_reconnect_attempts, clientVars, dmx_open, pc, idx,
                   src, cc_i, tick_page, consecutive_errors, enc_delta,
                   envVars, set_wing_fader>>
    /\ Sent

\* pitchwheel forwarded whatever the strip
MidiPitchAll ==
    /\ MidiArrives
    /\ \E ch \in live, pitch \in PitchRaw :
        on_fader(ch, PitchToFader(pitch))
    /\ UNCHANGED <<selected_page, clientVars, dmx_open, pc, idx, src, cc_i,
                   tick_page, consecutive_errors, enc_delta>>
    /\ Sent

\* pitchwheel: forwarded when the strip is touched or is strip 5 or 7,
\* otherwise decoded and dropped
MidiPitch ==
    /\ MidiArrives
    /\ \E ch \in live, pitch \in PitchRaw :
        IF channels[ch].is_touched \/ ch \in {5, 7}
        THEN on_fader(ch, PitchToFader(pitch))
        ELSE /\ out' = <<Ev("pitchwheel", "midi", "strip", ch,
                            PitchToFader(pitch))>>
             /\ UNCHANGED <<channels, dmx_stored_values>>
    /\ UNCHANGED <<selected_page, clientVars, dmx_open, pc, idx, src, cc_i,
                   tick_page, consecutive_errors, enc_delta>>
    /\ Sent

\* ------------------------------------------------------------ on_button
\* btn_type, ch of a note 0..31
ButtonType(note) ==
    IF note <= 7 THEN "rec"
    ELSE IF note <= 15 THEN "solo"
    ELSE IF note <= 23 THEN "mute"
    ELSE "select"

\* an on_button that handles releases like presses
on_button_acts_always(state) == TRUE

\* on_button: `if not state: return`
on_button_acts(state) == state

\* the button message a handler was called with
PressEv(op, ch, v, note, msg) ==
    [op |-> op, by |-> "midi", k |-> "strip", n |-> ch, v |-> v,
     note |-> note, type |-> msg.type, velocity |-> msg.velocity]

ButtonStrip(note) ==
    IF note <= 7 THEN note + 1
    ELSE IF note <= 15 THEN note - 7
    ELSE IF note <= 23 THEN note - 15
    ELSE note - 23

\* rec and solo presses, and every release: on_button changes nothing
MidiButtonIdle ==
    /\ MidiArrives
    /\ \E note \in {c + o : c \in live, o \in {-1, 7, 15, 23}},
          msg \in NoteMessages :
        LET btn == ButtonType(note)
            ch == ButtonStrip(note)
        IN  /\ ~on_button_acts(NoteState(msg)) \/ btn \in {"rec", "solo"}
            /\ out' = <<NoteEv(btn, ch, note, msg)>>
    /\ UNCHANGED <<selected_page, channels, clientVars, dmxVars, pc, idx, src,
                   cc_i, tick_page, consecutive_errors, enc_delta>>
    /\ Sent

\* the console target the mute button toggles for (page, ch); k = "" for none
MuteTarget(page, ch) ==
    IF page = 0 /\ ch <= 4 THEN [k |-> "ch", n |-> ch]
    ELSE IF page = 0 /\ ch \in {5, 6, 7} THEN [k |-> "mtx", n |-> ch - 4]
    ELSE IF page = 1 THEN [k |-> "ch", n |-> ch + 8]
    ELSE IF page = 2 THEN [k |-> "ch", n |-> ch + 16]
    ELSE [k |-> "", n |-> 0]

\* mute press: up to current_mute = wing.getMute(...)
MidiMutePress ==
    /\ MidiArrives
    /\ \E ch \in Strips, msg \in NoteMessages :
        /\ on_button_acts(NoteState(msg))
        /\ ch \in live \/ MuteTarget(selected_page, ch).k = ""
        /\ out' = <<PressEv("mute_press", ch, selected_page, ch + 15, msg)>>
        /\ IF MuteTarget(selected_page, ch).k # ""
           THEN Goto("midi", "mute_q", ch)
           ELSE UNCHANGED <<pc, idx>>
    /\ UNCHANGED <<selected_page, channels, clientVars, dmxVars, src, cc_i,
                   tick_page, consecutive_errors, enc_delta>>
    /\ Sent

\* the console's mute state when getMute's reply is produced: the reply's
\* value when the reply is this query's own, anything otherwise
MuteTruth(o) ==
    IF o.how = "reply" /\ o.val \in {0, 1} THEN {o.val} ELSE {0, 1}

\* new_state = not current_mute; wing.setMute(...); device.set_led(...)
MidiMuteToggle ==
    /\ pc["midi"] = "mute_q"
    /\ \E o \in Outcomes(MuteVals(idx["midi"])) : \E m \in MuteTruth(o) :
        LET ch == idx["midi"]
            tgt == MuteTarget(selected_page, ch)
            new_state == IF getMute(o.val) THEN 0 ELSE 1
            q == Q("midi", o, Mute(tgt), tgt.n, ch)
            seen == Ev("console_mute", "midi", tgt.k, tgt.n, m)
        IN  /\ QueryRecv("midi", o)
            /\ out' = IF o.val = InfVal
                      THEN <<q, seen>>
                      ELSE <<q, seen,
                             Ev("wing_setMute", "midi", tgt.k, tgt.n, new_state),
                             Ev("set_led_mute", "midi", "strip", ch, new_state)>>
    /\ Goto("midi", "sleep", 0)
    /\ UNCHANGED <<working_query_path, selected_page, channels, xtVars,
                   dmxVars, src, cc_i, tick_page, consecutive_errors,
                   enc_delta, envVars, echoVars>>

\* ------------------------------------------------------------ page switch
\* update_page_faders reading page 1 from the channels of page 2
RefreshTargetShifted(page, ch) ==
    IF page = 0 /\ ch <= 4 THEN [k |-> "ch", n |-> ch]
    ELSE IF page = 0 /\ ch \in 5..7 THEN [k |-> "mtx", n |-> ch - 4]
    ELSE IF page \in {1, 2} THEN [k |-> "ch", n |-> ch + 16]
    ELSE [k |-> "", n |-> 0]

\* the console target update_page_faders reads for (page, ch)
RefreshTarget(page, ch) ==
    IF page = 0 /\ ch <= 4 THEN [k |-> "ch", n |-> ch]
    ELSE IF page = 0 /\ ch \in 5..7 THEN [k |-> "mtx", n |-> ch - 4]
    ELSE IF page = 1 THEN [k |-> "ch", n |-> ch + 8]
    ELSE IF page = 2 THEN [k |-> "ch", n |-> ch + 16]
    ELSE [k |-> "", n |-> 0]

\* the console target update_page_mutes reads for (page, ch)
RefreshMuteTarget(page, ch) ==
    IF page = 0 /\ ch <= 4 THEN [k |-> "ch", n |-> ch]
    ELSE IF page = 0 /\ ch \in {5, 6, 7} THEN [k |-> "mtx", n |-> ch - 4]
    ELSE IF page = 1 THEN [k |-> "ch", n |-> ch + 8]
    ELSE IF page = 2 THEN [k |-> "ch", n |-> ch + 16]
    ELSE [k |-> "", n |-> 0]

\* the lighting channels update_page_faders reads for (page, ch)
RefreshLight(page, ch) ==
    IF page = 0 /\ ch = 8 THEN 1..4
    ELSE IF page = 3 THEN {ch}
    ELSE {}

\* last strip whose fader / mute the refresh queries on a page (0 = none)
RefreshLast(page) ==
    IF page = 0 THEN 7 ELSE IF page \in {1, 2} THEN 8 ELSE 0

\* the select handler's loop over all strips: LEDs and rings off
SelectClear ==
    [j \in 1..(2 * NumStrips) |->
        IF j % 2 = 1
        THEN Ev("set_led_select", "midi", "strip", (j + 1) \div 2, 0)
        ELSE Ev("set_encoder_ring", "midi", "strip", j \div 2, 0)]

\* update_page_faders and update_page_mutes on a page without console targets
RefreshLocal(t, page) ==
    (IF page = 3
     THEN [c \in Strips |-> Ev("set_fader", t, "strip", c, getDMX(c))]
     ELSE <<>>)
    \o [c \in Strips |-> Ev("set_led_mute", t, "strip", c, 0)]

\* a page switch that stays on the last defined page for strips 5..8
NewPageDefined(ch) == IF ch - 1 <= 3 THEN ch - 1 ELSE 3

\* device.selected_page = ch - 1
NewPage(ch) == ch - 1

\* select press: reset the strips, switch the page, start the refresh
MidiSelectPress ==
    /\ MidiArrives
    /\ \E ch \in Strips, msg \in NoteMessages :
        LET page == NewPage(ch)
        IN  /\ on_button_acts(NoteState(msg))
            /\ channels' = [c \in Strips |->
                               [channels[c] EXCEPT !.fader_value = 0,
                                                   !.last_stable_value = 0]]
            /\ selected_page' = page
            /\ out' = <<PressEv("select_press", ch, page, ch + 23, msg)>>
                      \o SelectClear
                      \o <<Ev("set_led_select", "midi", "strip", ch, 1),
                           Ev("update_page_display", "midi", "page", page, 0)>>
                      \o (IF RefreshLast(page) = 0 THEN RefreshLocal("midi", page)
                          ELSE <<>>)
            /\ IF RefreshLast(page) > 0
               THEN Goto("midi", "sel_fader", 1)
               ELSE UNCHANGED <<pc, idx>>
    /\ UNCHANGED <<clientVars, dmxVars, src, cc_i, tick_page,
                   consecutive_errors, enc_delta>>
    /\ Sent

\* update_page_faders: val = wing.getFader(...) for strip idx
SelectFader(t) ==
    /\ pc[t] = "sel_fader"
    /\ \E o \in Outcomes(FaderVals(idx[t])) :
        LET ch == idx[t]
            page == selected_page
            tgt == RefreshTarget(page, ch)
            q == Q(t, o, Fdr(tgt), tgt.n, ch)
        IN  /\ QueryRecv(t, o)
            /\ channels' = IF o.val # NoneVal
                           THEN [channels EXCEPT
                                    ![ch].fader_value = o.val,
                                    ![ch].last_stable_value = o.val]
                           ELSE channels
            /\ out' = <<q>>
                      \o (IF o.val # NoneVal
                          THEN <<Ev("set_fader", t, "strip", ch, o.val),
                                 Ev("write_strip", t, "strip", ch, o.val)>>
                          ELSE <<>>)
                      \o (IF page = 0 /\ ch = 4
                          THEN <<Ev("set_fader", t, "strip", 5, 0)>>
                          ELSE <<>>)
                      \o (IF page = 0 /\ ch = RefreshLast(page)
                          THEN <<Ev("set_fader", t, "strip", 8,
                                    getSaallicht)>>
                          ELSE <<>>)
            /\ IF ch < RefreshLast(page)
               THEN Goto(t, "sel_fader", ch + 1)
               ELSE Goto(t, "sel_mute", 1)
    /\ UNCHANGED <<working_query_path, selected_page, xtVars, dmxVars, src,
                   cc_i, tick_page, consecutive_errors, enc_delta, envVars, set_wing_fader, echo>>
    /\ Sent

\* update_page_mutes: muted = wing.getMute(...) for strip idx
SelectMute(t) ==
    /\ pc[t] = "sel_mute"
    /\ \E o \in Outcomes(MuteVals(idx[t])) :
        LET ch == idx[t]
            page == selected_page
            tgt == RefreshMuteTarget(page, ch)
            q == Q(t, o, Mute(tgt), tgt.n, ch)
        IN  /\ QueryRecv(t, o)
            /\ IF o.val = InfVal
               THEN /\ out' = <<q>>
                    /\ Goto(t, "sel_grp", 1)
               ELSE /\ out' = <<q, Ev("set_led_mute", t, "strip", ch,
                                      IF getMute(o.val) THEN 1 ELSE 0)>>
                              \o (IF page = 0 /\ ch = 4
                                  THEN <<Ev("set_led_mute", t, "strip",
                                            5, 0)>>
                                  ELSE <<>>)
                              \o (IF page = 0 /\ ch = RefreshLast(page)
                                  THEN <<Ev("set_led_mute", t, "strip",
                                            8, 0)>>
                                  ELSE <<>>)
                    /\ IF ch < RefreshLast(page)
                       THEN Goto(t, "sel_mute", ch + 1)
                       ELSE Goto(t, "sel_grp", 1)
    /\ UNCHANGED <<working_query_path, selected_page, channels, xtVars,
                   dmxVars, src, cc_i, tick_page, consecutive_errors,
                   enc_delta, envVars, echoVars>>

\* an exception out of the gain loop: the MIDI callback logs it, main() has
\* no handler for it and ends
RefreshRaised(t) ==
    Goto(t, IF t = "main" THEN "exit" ELSE "sleep", 0)

\* after one strip of the gain loop of the select handler or of main()
SelectGainNext(t) ==
    IF idx[t] < GainLast(selected_page)
    THEN Goto(t, "sel_grp", idx[t] + 1)
    ELSE Goto(t, "sleep", 0)

\* source = wing.getChannelInputSource(wing_ch): grp
SelectGainGrp(t) ==
    /\ pc[t] = "sel_grp"
    /\ \E o \in Outcomes(Groups) :
        /\ QueryRecv(t, o)
        /\ src' = [src EXCEPT ![t] =
                      [grp |-> IF o.val = NoneVal THEN 0 ELSE o.val, num |-> 0]]
        /\ out' = <<Q(t, o, "grp",
                      GainChannel(selected_page, idx[t]), idx[t])>>
    /\ Goto(t, "sel_in", idx[t])
    /\ UNCHANGED <<working_query_path, selected_page, channels, xtVars,
                   dmxVars, cc_i, tick_page, consecutive_errors, enc_delta,
                   envVars, echoVars>>

\* source = wing.getChannelInputSource(wing_ch): in
SelectGainIn(t) ==
    /\ pc[t] = "sel_in"
    /\ \E o \in Outcomes(SourceNums \cup
                          (IF idx[t] \in live THEN {InfVal} ELSE {})) :
        /\ QueryRecv(t, o)
        /\ out' = <<Q(t, o, "in",
                      GainChannel(selected_page, idx[t]), idx[t])>>
        /\ IF src[t].grp = 0 \/ o.val = NoneVal
           THEN SelectGainNext(t) /\ UNCHANGED src
           ELSE IF o.val = InfVal
           THEN RefreshRaised(t) /\ UNCHANGED src
           ELSE /\ src' = [src EXCEPT ![t].num = o.val]
                /\ Goto(t, "sel_g", idx[t])
    /\ UNCHANGED <<working_query_path, selected_page, channels, xtVars,
                   dmxVars, cc_i, tick_page, consecutive_errors, enc_delta,
                   envVars, echoVars>>

\* gain = wing.getGain(grp, num); if gain is not None: ...
SelectGainG(t) ==
    /\ pc[t] = "sel_g"
    /\ \E o \in Outcomes(GainVals(idx[t])) :
        LET ch == idx[t]
            gain == getGain(o.val)
            q == Q(t, o, "gain", src[t].num, ch)
        IN  /\ QueryRecv(t, o)
            /\ IF gain # NoneVal
               THEN /\ channels' = [channels EXCEPT ![ch].gain_db = gain]
                    /\ out' = <<q, Ev("write_gain", t, "strip", ch, gain),
                                Ev("set_encoder_ring", t, "strip", ch,
                                   RingValue(gain))>>
               ELSE /\ UNCHANGED channels
                    /\ out' = <<q>>
    /\ SelectGainNext(t)
    /\ UNCHANGED <<working_query_path, selected_page, xtVars, dmxVars, src,
                   cc_i, tick_page, consecutive_errors, enc_delta, envVars, echoVars>>

\* ------------------------------------------------------------ surface supervision
\* what XTouchExtender.open can come to: the ports open, no port of that
\* name, open_output raises, open_input raises
OpenOutcomes == {"ok", "no_port", "out_fails", "in_fails"}

\* the surface is plugged in or pulled, or its port is taken or released
SurfaceAvailability ==
    /\ xt_available' = ~xt_available
    /\ out' = <<>>
    /\ UNCHANGED <<selected_page, channels, xtVars, clientVars, dmxVars, pc,
                   idx, src, cc_i, tick_page, consecutive_errors, enc_delta,
                   live, midi_left, ticks_left, net, echoVars>>

\* a counter that is reset by a successful reconnect alone
ReconnectAttemptsCount(success) ==
    IF success THEN 0 ELSE xtouch_reconnect_attempts + 1

\* main()'s xtouch_reconnect_attempts after one call of device.reconnect
ReconnectAttempts(success) ==
    IF success THEN 0
    ELSE IF xtouch_reconnect_attempts + 1 >= MAX_RECONNECT_ATTEMPTS THEN 0
    ELSE xtouch_reconnect_attempts + 1

\* _init_display: every LED off, select LED 1 on, the labels of page 0
InitDisplay(t) ==
    [j \in 1..(4 * NumStrips) |->
        LET ch == ((j - 1) \div 4) + 1
        IN  IF j % 4 = 1 THEN Ev("set_led_rec", t, "strip", ch, 0)
            ELSE IF j % 4 = 2 THEN Ev("set_led_solo", t, "strip", ch, 0)
            ELSE IF j % 4 = 3 THEN Ev("set_led_mute", t, "strip", ch, 0)
            ELSE Ev("set_led_select", t, "strip", ch, 0)]
    \o <<Ev("set_led_select", t, "strip", 1, 1),
         Ev("update_page_display", t, "page", 0, 0)>>

\* what one call of is_connected saw and returned
Connected(t, result) ==
    [op |-> "is_connected", by |-> t, k |-> "", n |-> 0,
     v |-> IF result THEN 1 ELSE 0, age |-> xt_age, connected |-> xt_connected,
     inport |-> xt_inport, outport |-> xt_outport]

\* main(): `if not device.is_connected():` and device.reconnect, up to the
\* first query of the refresh; open() closes both ports first
MainSurfaceCheck ==
    /\ pc["main"] = "sleep"
    /\ IF is_connected
       THEN /\ out' = <<Connected("main", TRUE)>>
            /\ UNCHANGED <<xtVars, pc, idx>>
       ELSE \E o \in IF xt_available THEN {"ok"} ELSE OpenOutcomes \ {"ok"} :
            LET page == selected_page
            IN  /\ xt_outport' = (o \in {"ok", "in_fails"})
                /\ xt_inport' = (o = "ok")
                /\ xt_connected' = (o = "ok")
                /\ xt_age' = IF o = "ok" THEN 0 ELSE xt_age
                /\ xtouch_reconnect_attempts' = ReconnectAttempts(o = "ok")
                /\ out' = <<Connected("main", FALSE),
                            Ev("open", "main", "", 0,
                               IF o = "ok" THEN 1 ELSE 0)>>
                          \o (IF o = "ok"
                              THEN InitDisplay("main")
                                   \o <<Ev("update_page_display", "main",
                                           "page", page, 0),
                                        Ev("set_led_select", "main", "strip",
                                           page + 1, 1)>>
                                   \o (IF RefreshLast(page) = 0
                                       THEN RefreshLocal("main", page)
                                       ELSE <<>>)
                              ELSE <<>>)
                /\ IF o = "ok" /\ RefreshLast(page) > 0
                   THEN Goto("main", "sel_fader", 1)
                   ELSE UNCHANGED <<pc, idx>>
    /\ UNCHANGED <<selected_page, channels, clientVars, dmxVars, src, cc_i,
                   tick_page, consecutive_errors, enc_delta, envVars, set_wing_fader, echo>>
    /\ Sent

\* ------------------------------------------------------------ on_encoder
\* control change 16..23: decode the delta, call on_encoder up to its first
\* query
MidiEncoder(values) ==
    /\ MidiArrives
    /\ \E control \in {c + 15 : c \in live}, value \in values :
        LET ch == control - 15
            delta == EncoderDelta(value)
        IN  /\ enc_delta' = delta
            /\ out' = <<[op |-> "encoder_turn", by |-> "midi", k |-> "strip",
                         n |-> ch, v |-> delta, raw |-> value,
                         control |-> control]>>
            /\ IF GainChannel(selected_page, ch) # 0
               THEN Goto("midi", "enc_grp", ch)
               ELSE UNCHANGED <<pc, idx>>
    /\ UNCHANGED <<selected_page, channels, clientVars, dmxVars, src, cc_i,
                   tick_page, consecutive_errors>>
    /\ Sent

\* source = wing.getChannelInputSource(wing_ch): grp
EncoderGrp ==
    /\ pc["midi"] = "enc_grp"
    /\ \E o \in Outcomes(Groups) :
        /\ QueryRecv("midi", o)
        /\ src' = [src EXCEPT !["midi"] =
                      [grp |-> IF o.val = NoneVal THEN 0 ELSE o.val, num |-> 0]]
        /\ out' = <<Q("midi", o, "grp",
                      GainChannel(selected_page, idx["midi"]), idx["midi"])>>
    /\ Goto("midi", "enc_in", idx["midi"])
    /\ UNCHANGED <<working_query_path, selected_page, channels, xtVars,
                   dmxVars, cc_i, tick_page, consecutive_errors, enc_delta,
                   envVars, echoVars>>

\* on_encoder's new gain without the max / min line
EncoderNewGainUnclamped(current_gain, delta) ==
    IF delta > 0 THEN current_gain + GAIN_STEP ELSE current_gain - GAIN_STEP

\* the gain on_encoder computes from the strip's gain and the delta
EncoderNewGain(current_gain, delta) ==
    Clamp(GAIN_MIN, GAIN_MAX,
          IF delta > 0 THEN current_gain + GAIN_STEP
          ELSE current_gain - GAIN_STEP)

\* the strips when gain_db is stored before the result of setGain is known
EncoderStoreAlways(ch, new_gain, sent) ==
    [channels EXCEPT ![ch].gain_db = new_gain]

\* if wing.setGain(grp, num, new_gain): device.channels[ch].gain_db = new_gain
EncoderStore(ch, new_gain, sent) ==
    IF sent THEN [channels EXCEPT ![ch].gain_db = new_gain] ELSE channels

\* the rest of on_encoder: in_num, new_gain, wing.setGain, ring
EncoderApply ==
    /\ pc["midi"] = "enc_in"
    /\ \E o \in Outcomes(SourceNums \cup {InfVal}), sent \in BOOLEAN :
        LET ch == idx["midi"]
            current_gain == channels[ch].gain_db
            new_gain == EncoderNewGain(current_gain, enc_delta)
            q == Q("midi", o, "in", GainChannel(selected_page, ch), ch)
            rd == Ev("gain_read", "midi", "strip", ch, current_gain)
        IN  /\ QueryRecv("midi", o)
            /\ IF src["midi"].grp = 0 \/ o.val \in {NoneVal, InfVal}
               THEN /\ ~sent
                    /\ out' = <<q>>
                    /\ UNCHANGED channels
               ELSE /\ channels' = EncoderStore(ch, new_gain, sent)
                    /\ out' = IF sent
                              THEN <<q, rd,
                                     Ev("wing_setGain", "midi", "src", o.val,
                                        setGain(new_gain)),
                                     Ev("write_gain", "midi", "strip", ch,
                                        new_gain),
                                     Ev("set_encoder_ring", "midi", "strip",
                                        ch, RingValue(new_gain))>>
                              ELSE <<q, rd,
                                     Ev("wing_setGain_failed", "midi", "src",
                                        o.val, setGain(new_gain))>>
    /\ Goto("midi", "sleep", 0)
    /\ UNCHANGED <<working_query_path, selected_page, xtVars, dmxVars, src,
                   cc_i, tick_page, consecutive_errors, enc_delta, envVars, echoVars>>

\* ------------------------------------------------------------ specification
SyncSteps ==
    \/ SyncTick
    \/ SyncGainGrp
    \/ SyncGainIn
    \/ SyncGainG
    \/ SyncFaderCheck
    \/ SyncFader
    \/ SyncMute

SelectSteps ==
    \/ MidiSelectPress
    \/ SelectFader("midi")
    \/ SelectMute("midi")
    \/ SelectGainGrp("midi")
    \/ SelectGainIn("midi")
    \/ SelectGainG("midi")

MuteSteps ==
    \/ MidiMutePress
    \/ MidiMuteToggle

EncoderSteps ==
    \/ MidiEncoder(EncoderRaw)
    \/ EncoderGrp
    \/ EncoderApply

\* the MIDI callback alone, every handler, on every page, the console
\* answering or not
Init == Start({1}, LiveSets, 0..3, MaxMidi, 0)

Next ==
    \/ Send("midi")
    \/ MidiTouch
    \/ MidiPitch
    \/ MidiButtonIdle
    \/ MuteSteps
    \/ SelectSteps
    \/ EncoderSteps

Spec == Init /\ [][Next]_vars

\* the encoder path alone, over every raw value of a control change
InitDecode == Start({0}, LiveSets, 0..3, 1, 0)

NextDecode ==
    \/ Send("midi")
    \/ MidiEncoder(0..127)
    \/ EncoderGrp
    \/ EncoderApply

SpecDecode == InitDecode /\ [][NextDecode]_vars

\* the reconciliation loop against touch and fader messages
InitSync == Start({0}, LiveSets, 0..3, 1, 2)

NextSync ==
    \/ Send("sync")
    \/ SyncSteps
    \/ MidiTouch
    \/ MidiPitch
    \/ TimePasses({HEARTBEAT_TIMEOUT + 1})

SpecSync == InitSync /\ [][NextSync]_vars

\* the reconciliation loop against encoder turns
InitGain == Start({0}, LiveSets, 0..3, MaxMidi, 1)

NextGain ==
    \/ Send("sync")
    \/ Send("midi")
    \/ SyncSteps
    \/ EncoderSteps

SpecGain == InitGain /\ [][NextGain]_vars

\* the reconciliation loop against a page switch; the live strip is an input
\* strip or a matrix strip
InitPage == Start({0}, {{1}, {5}}, {0}, 1, 1)

NextPage ==
    \/ Send("sync")
    \/ Send("midi")
    \/ SyncSteps
    \/ SelectSteps

SpecPage == InitPage /\ [][NextPage]_vars

\* the reconciliation loop alone on a network that loses replies
InitLossy == Start({1}, LiveSets, 0..3, 0, MaxTicks)

NextLossy ==
    \/ Send("sync")
    \/ SyncSteps
    \/ CheckQuery("sync")
    \/ CheckReinit("sync")

SpecLossy == InitLossy /\ [][NextLossy]_vars

\* the three threads at the query socket, on a network that loses and delays
\* replies
InitLock == Start({2}, {{5}}, {0}, 1, 1)

NextLock ==
    \/ \E t \in Threads : Send(t)
    \/ SyncSteps
    \/ MuteSteps
    \/ MainCheck
    \/ CheckQuery("main")
    \/ CheckReinit("main")

SpecLock == InitLock /\ [][NextLock]_vars

\* the surface and its supervisor: the heartbeat clock, the MIDI callback
\* and main()'s surface check with the reconnect and its refresh
InitSurface == Start({0}, {{1}}, 0..3, MaxMidi, 0)

\* main() has not ended, and the process with it
Running == pc["main"] # "exit"

NextSurface ==
    \/ Send("main")
    \/ Running /\ TimePasses({1})
    \/ Running /\ MidiTouch
    \/ Running /\ MidiPitch
    \/ Running /\ SurfaceAvailability
    \/ MainSurfaceCheck
    \/ SelectFader("main")
    \/ SelectMute("main")
    \/ SelectGainGrp("main")
    \/ SelectGainIn("main")
    \/ SelectGainG("main")

SpecSurface == InitSurface /\ [][NextSurface]_vars

\* main()'s periodic console check on page 3, where the faders set the
\* lighting channels, with replies that may be lost and a lighting link that
\* dmx.connect() did or did not open at startup; a fader is touched, moved
\* and released, and sync_loop runs a tick
InitCheck == StartLink({1}, {{1}}, {3}, MaxMidi + 1, 1, BOOLEAN)

NextCheck ==
    \/ SyncTick
    \/ Send("main")
    \/ MainCheck
    \/ CheckQuery("main")
    \/ CheckReinit("main")
    \/ MidiTouch
    \/ MidiPitch

SpecCheck == InitCheck /\ [][NextCheck]_vars

\* ticks on page 0 with the console's matrix fader 1 (strip 5) moving, the
\* steps of the fader stage taken one statement at a time, and the motor
\* faders' own pitch-bend messages, each of which arrives before the loop
\* comes to its strip again
InitEcho == Start({0}, {{5}}, {0}, 0, MaxTicks)

NextEcho ==
    \/ Send("sync")
    \/ SyncTick
    \/ SyncGainGrp
    \/ SyncGainIn
    \/ SyncGainG
    \/ (\A e \in echo : e.ch # idx["sync"]) /\ SyncFaderCheck
    \/ SyncFaderMove
    \/ SyncFaderStore
    \/ SyncMute
    \/ MidiEcho

SpecEcho == InitEcho /\ [][NextEcho]_vars

\* the reconciliation loop alone on page 0 with the console's channel 1
\* fader moving between ticks and strip 1 touched and released, in runs
\* that record what the motor faders were sent
InitDrift == StartSent({0, 1}, {{1}}, {0}, 1, MaxTicks, {TRUE},
                       {[c \in Strips |-> NoneVal]})

NextDrift ==
    \/ Send("sync")
    \/ SyncSteps
    \/ MidiTouch

SpecDrift == InitDrift /\ [][NextDrift]_vars

\* a shadow that keeps the byte written to the link
sendDMXByte(channel, value_1000) ==
    IF dmx_open
    THEN [dmx_stored_values EXCEPT ![channel] = DmxByte(value_1000)]
    ELSE dmx_stored_values

\* DMXController.sendDMX: dmx_stored_values after the call
sendDMX(channel, value_1000) ==
    IF dmx_open
    THEN [dmx_stored_values EXCEPT ![channel] = value_1000]
    ELSE dmx_stored_values

\* the lighting sink by itself: the calls sendDMX(channel, v) that fader
\* messages lead to, and getDMX(channel) after one
DmxSend(values) ==
    /\ midi_left > 0
    /\ midi_left' = midi_left - 1
    /\ \E channel \in DmxChannels, v \in values :
        /\ dmx_stored_values' = sendDMX(channel, v)
        /\ out' = <<Ev("sendDMX", "midi", "dmx", channel, v)>>
                  \o (IF dmx_open
                      THEN <<Ev("dmx_write", "midi", "dmx", channel,
                                DmxByte(v))>>
                      ELSE <<>>)
    /\ UNCHANGED <<selected_page, channels, xtVars, clientVars, dmx_open, pc,
                   idx, src, cc_i, tick_page, consecutive_errors, enc_delta,
                   live, ticks_left, net, xt_available, echoVars>>

DmxGet ==
    /\ out # <<>>
    /\ out[1].op = "sendDMX"
    /\ \A i \in DOMAIN out : out[i].op # "getDMX"
    /\ \E channel \in DmxChannels :
           out' = <<out[1], Ev("getDMX", "sync", "dmx", channel,
                               getDMX(channel))>>
    /\ UNCHANGED <<selected_page, channels, xtVars, clientVars, dmxVars, pc,
                   idx, src, cc_i, tick_page, consecutive_errors, enc_delta,
                   envVars, echoVars>>

\* a first value on some channel, then every value 0..1000 on some channel
DmxFirst == {500}

InitDmx == StartLink({0}, {{}}, {3}, MaxMidi, 0, BOOLEAN)

NextDmx ==
    \/ midi_left > 1 /\ DmxSend(DmxFirst)
    \/ midi_left = 1 /\ DmxSend(FADER_MIN..FADER_MAX)
    \/ DmxGet

SpecDmx == InitDmx /\ [][NextDmx]_vars

\* one step of main(): the loop wakes from time.sleep(1), and every query of
\* the refresh returns after at most the socket's timeout
MainStep ==
    \/ MainSurfaceCheck
    \/ Send("main")
    \/ SelectFader("main")
    \/ SelectMute("main")
    \/ SelectGainGrp("main")
    \/ SelectGainIn("main")
    \/ SelectGainG("main")

FairSurface == SpecSurface /\ WF_vars(MainStep)

\* every operation of the three threads, one operation at a time: a tick, a
\* MIDI message or a surface check starts when the other threads are idle
Alone(t) == Running /\ \A u \in Threads \ {t} : pc[u] = "sleep"

InitOps == Start({0}, {{1}}, {0}, MaxMidi, 1)

NextOps ==
    \/ \E t \in Threads : Send(t)
    \/ Alone("sync") /\ SyncTick
    \/ SyncGainGrp
    \/ SyncGainIn
    \/ SyncGainG
    \/ SyncFaderCheck
    \/ SyncFader
    \/ SyncMute
    \/ Alone("midi") /\ TimePasses({HEARTBEAT_TIMEOUT + 1})
    \/ Alone("midi") /\ MidiTouch
    \/ Alone("midi") /\ MidiPitch
    \/ Alone("midi") /\ MidiButtonIdle
    \/ Alone("midi") /\ MidiMutePress
    \/ MidiMuteToggle
    \/ Alone("midi") /\ MidiSelectPress
    \/ SelectFader("midi")
    \/ SelectMute("midi")
    \/ SelectGainGrp("midi")
    \/ SelectGainIn("midi")
    \/ SelectGainG("midi")
    \/ Alone("midi") /\ MidiEncoder(EncoderRaw)
    \/ EncoderGrp
    \/ EncoderApply
    \/ Alone("main") /\ ~is_connected /\ SurfaceAvailability
    \/ Alone("main") /\ MainSurfaceCheck
    \/ SelectFader("main")
    \/ SelectMute("main")
    \/ SelectGainGrp("main")
    \/ SelectGainIn("main")
    \/ SelectGainG("main")

SpecOps == InitOps /\ [][NextOps]_vars

\* the fader curve alone: setFader for a position, getFader for the dB value
\* the console echoes or for a reply of its own
CurvePositions == (FADER_MIN - 2)..(FADER_MAX + 2)

CurveReplies ==
    {MinusOo, SILENT_DB, QUIET_DB - 1, QUIET_DB, QUIET_DB + 1, CURVE_C - 1,
     CURVE_C, 0, 1300500, 1405758, 1405759, 1500000}

CurveSet ==
    /\ out = <<>>
    /\ \E pos \in CurvePositions :
           out' = <<[op |-> "setFader", by |-> "midi", k |-> "ch", n |-> 1,
                     v |-> pos, db |-> setFaderDb(pos)]>>
    /\ UNCHANGED <<selected_page, channels, xtVars, clientVars, dmxVars, pc,
                   idx, src, cc_i, tick_page, consecutive_errors, enc_delta,
                   envVars, echoVars>>

CurveGet ==
    /\ \A i \in DOMAIN out : out[i].op = "setFader"
    /\ \E raw \in CurveReplies \cup
                   {out[i].db + e : i \in {j \in DOMAIN out :
                                              out[j].op = "setFader"},
                                   e \in (-FloatErr)..FloatErr} :
           out' = SelectSeq(out, LAMBDA ev : ev.op = "setFader")
                  \o <<[op |-> "getFader", by |-> "sync", k |-> "ch", n |-> 1,
                        v |-> getFader(raw), raw |-> raw]>>
    /\ UNCHANGED <<selected_page, channels, xtVars, clientVars, dmxVars, pc,
                   idx, src, cc_i, tick_page, consecutive_errors, enc_delta,
                   envVars, echoVars>>

\* the call returns
CurveDone ==
    /\ \E i \in DOMAIN out : out[i].op = "getFader"
    /\ out' = <<>>
    /\ UNCHANGED <<selected_page, channels, xtVars, clientVars, dmxVars, pc,
                   idx, src, cc_i, tick_page, consecutive_errors, enc_delta,
                   envVars, echoVars>>

InitCurve == Start({0}, {{1}}, {0}, 0, 0)

NextCurve ==
    \/ CurveSet
    \/ CurveGet
    \/ CurveDone

SpecCurve == InitCurve /\ [][NextCurve]_vars

\* the pitch-bend encoding alone: set_fader for a position, and the
\* callback's decoding of a pitch-bend message with the same pitch
\* an encoding over the full 14-bit span 16384
FaderToPitchFull(val) ==
    ((Clamp(FADER_MIN, FADER_MAX, val) * (PITCH_SPAN + 1)) \div FADER_MAX)
        - PITCH_OFFSET

\* val = max(FADER_MIN, min(FADER_MAX, val));
\* pitch = int((val / FADER_MAX) * 16383) - 8192
\* (v * 16383 / 1000 is a whole number for v = 0 and v = 1000 only, where
\* the float product is exact, and is at least 0.001 from a whole number
\* otherwise, so int() of the float product is the floor of the quotient)
FaderToPitch(val) ==
    ((Clamp(FADER_MIN, FADER_MAX, val) * PITCH_SPAN) \div FADER_MAX)
        - PITCH_OFFSET

PitchSet ==
    /\ out = <<>>
    /\ \E val \in CurvePositions :
           out' = <<[op |-> "set_fader", by |-> "sync", k |-> "strip", n |-> 1,
                     v |-> val, pitch |-> FaderToPitch(val)]>>
    /\ UNCHANGED <<selected_page, channels, xtVars, clientVars, dmxVars, pc,
                   idx, src, cc_i, tick_page, consecutive_errors, enc_delta,
                   envVars, echoVars>>

PitchEcho ==
    /\ out # <<>>
    /\ \A i \in DOMAIN out : out[i].op = "set_fader"
    /\ out' = out \o <<[op |-> "pitchwheel", by |-> "midi", k |-> "strip",
                        n |-> 1, v |-> PitchToFader(out[1].pitch),
                        pitch |-> out[1].pitch]>>
    /\ UNCHANGED <<selected_page, channels, xtVars, clientVars, dmxVars, pc,
                   idx, src, cc_i, tick_page, consecutive_errors, enc_delta,
                   envVars, echoVars>>

\* both calls have returned
PitchDone ==
    /\ \E i \in DOMAIN out : out[i].op = "pitchwheel"
    /\ out' = <<>>
    /\ UNCHANGED <<selected_page, channels, xtVars, clientVars, dmxVars, pc,
                   idx, src, cc_i, tick_page, consecutive_errors, enc_delta,
                   envVars, echoVars>>

InitPitch == Start({0}, {{1}}, {0}, 0, 0)

NextPitch ==
    \/ PitchSet
    \/ PitchEcho
    \/ PitchDone

SpecPitch == InitPitch /\ [][NextPitch]_vars

\* ------------------------------------------------------------ claims
\* the steps of the last action with a given operation
Steps(op) == {i \in DOMAIN out : out[i].op = op}

\* C1 (touch arbitration): whenever the reconciliation loop issues a surface
\* fader-set, the strip it addresses is not touched at that moment.
C1_TouchArbitration ==
    \A i \in Steps("set_fader") :
        out[i].by = "sync" => ~channels[out[i].n].is_touched

\* C2 (reconciliation deadband): when a reconciliation step reads the remote
\* value r of an untouched strip, then within 15 of lastStableValue it issues
\* no surface fader-set and leaves faderValue and lastStableValue as they
\* were, and beyond 15 it issues the fader-set with r and sets both to r.
C2_ReconDeadband ==
    \A i \in Steps("recon") :
        LET ch == out[i].n
            r == out[i].v
            sets == {j \in Steps("set_fader") : out[j].n = ch}
        IN  IF Abs(r - out[i].old_stable) <= FADER_DEADBAND
            THEN /\ sets = {}
                 /\ channels[ch].fader_value = out[i].old_fader
                 /\ channels[ch].last_stable_value = out[i].old_stable
            ELSE /\ \E j \in sets : out[j].v = r
                 /\ channels[ch].fader_value = r
                 /\ channels[ch].last_stable_value = r

\* the write targets of the Page Map: console target and lighting channels
C3_Console(page, ch) ==
    IF page = 0 /\ ch \in 1..4 THEN <<"ch", ch>>
    ELSE IF page = 0 /\ ch \in 5..7 THEN <<"mtx", ch - 4>>
    ELSE IF page = 1 THEN <<"ch", ch + 8>>
    ELSE IF page = 2 THEN <<"ch", ch + 16>>
    ELSE <<>>

C3_Lighting(page, ch) ==
    IF page = 0 /\ ch = 8 THEN 1..4
    ELSE IF page = 3 THEN {ch}
    ELSE {}

C3_Move ==
    \A i \in DOMAIN out' :
        out'[i].op = "fader_move" =>
            LET ch == out'[i].n
                position == out'[i].v
                console == {<<out'[j].k, out'[j].n, out'[j].v>> :
                               j \in {j \in DOMAIN out' :
                                         out'[j].op = "wing_setFader"}}
                lighting == {out'[j].n :
                                j \in {j \in DOMAIN out' :
                                          out'[j].op = "dmx_write"}}
                tgt == C3_Console(selected_page, ch)
            IN  IF Abs(position - channels[ch].last_stable_value) < 15
                THEN /\ console = {}
                     /\ lighting = {}
                     /\ channels' = channels
                     /\ dmx_stored_values' = dmx_stored_values
                ELSE /\ channels' =
                            [channels EXCEPT ![ch].last_stable_value = position]
                     /\ console = IF tgt = <<>> THEN {}
                                  ELSE {<<tgt[1], tgt[2], position>>}
                     /\ lighting = C3_Lighting(selected_page, ch)
                     /\ \A c \in lighting : dmx_stored_values'[c] = position

C4_Recv == "midi" \in inflight /\ "midi" \notin inflight'

\* the one query a step of the MIDI callback has finished
C4_Query(kind, number) ==
    /\ Cardinality({j \in DOMAIN out' : out'[j].op = "query"}) = 1
    /\ \A j \in DOMAIN out' :
           out'[j].op = "query" => out'[j].k = kind /\ out'[j].n = number

C4_At(stage, i) == pc'["midi"] = stage /\ idx'["midi"] = i

\* pressing select on strip 2
C4_Press ==
    \A i \in DOMAIN out' :
        (out'[i].op = "select_press" /\ out'[i].n = 2) =>
            /\ selected_page' = 1
            /\ \A c \in 1..8 : /\ channels'[c].fader_value = 0
                               /\ channels'[c].last_stable_value = 0
            /\ \E j \in DOMAIN out' :
                   out'[j].op = "update_page_display" /\ out'[j].n = 1
            /\ C4_At("sel_fader", 1)

\* the refresh of page 1, strip by strip
C4_Refresh ==
    (C4_Recv /\ selected_page = 1) =>
        LET i == idx["midi"]
            at == pc["midi"]
        IN  /\ i \in 1..8
            /\ at = "sel_fader" =>
                   /\ C4_Query("ch_fdr", i + 8)
                   /\ \A j \in DOMAIN out' :
                          out'[j].op = "query" =>
                              IF out'[j].v = NoneVal
                              THEN /\ channels'[i].fader_value = 0
                                   /\ channels'[i].last_stable_value = 0
                              ELSE /\ channels'[i].fader_value = out'[j].v
                                   /\ channels'[i].last_stable_value = out'[j].v
                   /\ IF i < 8 THEN C4_At("sel_fader", i + 1)
                      ELSE C4_At("sel_mute", 1)
            /\ at = "sel_mute" =>
                   /\ C4_Query("ch_mute", i + 8)
                   /\ \/ i < 8 /\ C4_At("sel_mute", i + 1)
                      \/ C4_At("sel_grp", 1)
            /\ at = "sel_grp" =>
                   /\ C4_Query("grp", i + 8)
                   /\ C4_At("sel_in", i)
            /\ at = "sel_in" =>
                   /\ C4_Query("in", i + 8)
                   /\ \/ C4_At("sel_g", i)
                      \/ i < 8 /\ C4_At("sel_grp", i + 1)
                      \/ C4_At("sleep", 0)
            /\ at = "sel_g" =>
                   /\ \E j \in DOMAIN out' :
                          out'[j].op = "query" /\ out'[j].k = "gain"
                   /\ \/ i < 8 /\ C4_At("sel_grp", i + 1)
                      \/ C4_At("sleep", 0)

C5_EncoderDecoding ==
    \A i \in Steps("encoder_turn") :
        LET v == out[i].raw
            delta == out[i].v
        IN  /\ out[i].control \in 16..23
            /\ v \in 0..127
            /\ out[i].n = out[i].control - 15
            /\ (1 <= v /\ v <= 63) => delta = v
            /\ (65 <= v /\ v <= 127) => delta = v - 128
            /\ v \in {0, 64} => delta = 0
            /\ enc_delta = delta

\* raw value 127 on controller 23 has reached strip 8 as delta -1
C5_Witness ==
    \E i \in Steps("encoder_turn") :
        /\ out[i].raw = 127
        /\ out[i].control = 23
        /\ out[i].n = 8
        /\ out[i].v = -1
        /\ enc_delta = -1

\* C6 (mute toggle): a mute press on a strip with a console target whose
\* mute state is m issues exactly one console set-mute, with not-m, to that
\* target and sets the strip's mute LED to not-m; a press on a strip without
\* a console target issues no set-mute.
C6_MuteToggle ==
    /\ \A i \in Steps("console_mute") :
           LET calls == Steps("wing_setMute")
               leds == Steps("set_led_mute")
           IN  /\ Cardinality(calls) = 1
               /\ \A j \in calls : /\ out[j].k = out[i].k
                                   /\ out[j].n = out[i].n
                                   /\ out[j].v = 1 - out[i].v
               /\ Cardinality(leds) = 1
               /\ \A j \in leds : out[j].v = 1 - out[i].v
    /\ \A i \in Steps("mute_press") :
           (out[i].v >= 3 \/ (out[i].v = 0 /\ out[i].n = 8)) =>
               /\ Steps("wing_setMute") = {}
               /\ pc["midi"] = "sleep"

C8_TimeoutsTriggerCheck ==
    \A i \in Steps("query") :
        (/\ out[i].by = "sync"
         /\ out[i].k # "path"
         /\ out[i].how = "timeout"
         /\ failed_queries >= 3
         /\ pc["sync"] \in {"sleep", "check"}) =>
            Cardinality(Steps("check_connection")) = 1

\* C9 (query mutual exclusion): at most one console query is in flight, and
\* no query consumes a datagram that answers another query.
C9_QueryExclusion ==
    /\ Cardinality(inflight) <= 1
    /\ \A i \in Steps("query") : out[i].how # "stale"

\* C10 (page-switch barrier): a reconciliation tick writes a strip's
\* faderValue and lastStableValue, and moves its fader, only while the page
\* it started on is still the selected page.
C10_PageBarrier ==
    \A i \in Steps("write_strip") \cup Steps("recon") :
        out[i].by = "sync" => tick_page = selected_page

\* C11 (curve round trip): a position 6..1000 converted to dB by setFader
\* and back by getFader comes out within 1 unit of itself.
C11_CurveRoundTrip ==
    \A i \in Steps("setFader"), j \in Steps("getFader") :
        (/\ out[i].v \in 6..1000
         /\ Abs(out[j].raw - out[i].db) <= FloatErr) =>
            Abs(out[j].v - out[i].v) <= 1

\* position 1000 has come back as 999, one unit below
C11_Witness ==
    \E i \in Steps("setFader"), j \in Steps("getFader") :
        /\ out[i].v = 1000
        /\ Abs(out[j].raw - out[i].db) <= FloatErr
        /\ out[j].v = 999

\* C12 (silence floor): setFader sends -144 dB for every position that is at
\* most 5 after clamping, and getFader returns 0 for the reply '-oo', for
\* every value of -90 dB or less and for every value with a negative
\* discriminant.
C12_SilenceFloor ==
    /\ \A i \in Steps("setFader") :
           out[i].v <= 5 => out[i].db = -14400000
    /\ \A j \in Steps("getFader") :
           (\/ out[j].raw = MinusOo
            \/ out[j].raw <= -9000000
            \/ 13590 * 13590 + 24 * (-6289500 - out[j].raw) < 0) =>
               out[j].v = 0

\* position 5 has been sent as -144 dB and -144 dB has been read as 0
C12_Witness ==
    \E i \in Steps("setFader"), j \in Steps("getFader") :
        /\ out[i].v = 5
        /\ out[i].db = -14400000
        /\ out[j].raw = -14400000
        /\ out[j].v = 0


\* the Page Map table: the console target and the lighting channels of a strip
PageMap(page, ch) ==
    IF page = 0 /\ ch \in 1..4 THEN [k |-> "ch", n |-> ch, dmx |-> {}]
    ELSE IF page = 0 /\ ch \in 5..7 THEN [k |-> "mtx", n |-> ch - 4, dmx |-> {}]
    ELSE IF page = 0 THEN [k |-> "", n |-> 0, dmx |-> 1..4]
    ELSE IF page = 1 THEN [k |-> "ch", n |-> ch + 8, dmx |-> {}]
    ELSE IF page = 2 THEN [k |-> "ch", n |-> ch + 16, dmx |-> {}]
    ELSE [k |-> "", n |-> 0, dmx |-> {ch}]

PageTarget(tgt, lights) == [k |-> tgt.k, n |-> tgt.n, dmx |-> lights]

\* C13 (Page Map consistency): on every page 0..3 and for every strip the
\* target the reconciliation loop reads, the target the page-switch refresh
\* reads and the target the fader-move handler writes are the target of the
\* Page Map table, and so is the target of the mute handler wherever the
\* table names a console target.
C13_PageMapConsistency ==
    \A ch \in Strips :
        LET page == selected_page
            want == PageMap(page, ch)
        IN  page \in 0..3 =>
                /\ PageTarget(SyncTarget(page, ch), SyncLight(page, ch)) = want
                /\ PageTarget(RefreshTarget(page, ch), RefreshLight(page, ch))
                       = want
                /\ PageTarget(FaderTarget(page, ch), FaderDmx(page, ch)) = want
                /\ want.k # "" =>
                       /\ MuteTarget(page, ch) = [k |-> want.k, n |-> want.n]
                       /\ RefreshMuteTarget(page, ch)
                              = [k |-> want.k, n |-> want.n]

\* the same without the reconciliation loop
C13_HandlersAgree ==
    \A ch \in Strips :
        LET page == selected_page
            want == PageMap(page, ch)
        IN  page \in 0..3 =>
                /\ PageTarget(RefreshTarget(page, ch), RefreshLight(page, ch))
                       = want
                /\ PageTarget(FaderTarget(page, ch), FaderDmx(page, ch)) = want
                /\ page # 3 =>
                       PageTarget(SyncTarget(page, ch), SyncLight(page, ch))
                           = want
                /\ want.k # "" =>
                       /\ MuteTarget(page, ch) = [k |-> want.k, n |-> want.n]
                       /\ RefreshMuteTarget(page, ch)
                              = [k |-> want.k, n |-> want.n]


\* C14 (surface liveness): is_connected returns true only when the connected
\* flag is set, both ports are bound and the last inbound message (or the
\* opening of the port) is at most 5 seconds old; when it is older than 5
\* seconds is_connected returns false, whatever the flag and the ports.
C14_SurfaceLiveness ==
    \A i \in Steps("is_connected") :
        /\ out[i].v = 1 =>
               /\ out[i].connected
               /\ out[i].inport
               /\ out[i].outport
               /\ out[i].age <= 5
        /\ out[i].age > 5 => out[i].v = 0

\* is_connected has returned false with the flag set and both ports bound,
\* 6 seconds after the last message
C14_Witness ==
    \E i \in Steps("is_connected") :
        /\ out[i].v = 0
        /\ out[i].age = 6
        /\ out[i].connected
        /\ out[i].inport
        /\ out[i].outport


\* C15 (pitch-bend gating): a pitch-bend message reaches the fader-move
\* handler only for a strip that is touched or is strip 5 or 7, and is
\* dropped only for an untouched strip other than 5 and 7; a dropped message
\* calls nothing else, writes nothing to the console or the lighting and
\* changes no strip.
C15_Step ==
    /\ \A i \in {j \in DOMAIN out' : out'[j].op = "fader_move"} :
           channels[out'[i].n].is_touched \/ out'[i].n \in {5, 7}
    /\ \A i \in {j \in DOMAIN out' : out'[j].op = "pitchwheel"} :
           /\ ~channels[out'[i].n].is_touched
           /\ out'[i].n \notin {5, 7}
           /\ Len(out') = 1
           /\ channels' = channels
           /\ dmx_stored_values' = dmx_stored_values
           /\ selected_page' = selected_page
           /\ pc' = pc

C15_PitchGating == [][C15_Step]_vars

\* a pitch-bend message for an untouched strip other than 5 and 7 has been
\* dropped
C15_Witness ==
    \E i \in Steps("pitchwheel") :
        /\ out[i].n \notin {5, 7}
        /\ ~channels[out[i].n].is_touched


\* C16 (touch ownership): a note message 104..111 sets is_touched of strip
\* note - 103 to true for a note-on with velocity above 0 and to false
\* otherwise, changes nothing else of any strip and calls no handler; and a
\* step that changes is_touched of a strip is such a note message for that
\* strip, whatever else the three threads do.
C16_Step ==
    /\ \A i \in {j \in DOMAIN out' : out'[j].op = "touch"} :
           LET ev == out'[i]
           IN  /\ ev.note \in 104..111
               /\ ev.n = ev.note - 103
               /\ channels' =
                      [channels EXCEPT ![ev.n].is_touched =
                          (ev.type = "note_on" /\ ev.velocity > 0)]
               /\ Len(out') = 1
               /\ pc' = pc
    /\ \A c \in Strips :
           channels'[c].is_touched # channels[c].is_touched =>
               \E i \in DOMAIN out' : out'[i].op = "touch" /\ out'[i].n = c

C16_TouchOwnership == [][C16_Step]_vars

\* a strip is still touched after a page switch has reset the strips
C16_Witness ==
    /\ Steps("select_press") # {}
    /\ \E c \in Strips : channels[c].is_touched


\* C17 (encoder gain step): an encoder turn with delta d whose source
\* resolves and whose gain write succeeds sends clamp(gain_db + d * 1.0 dB,
\* -2.5, 45.0) to the console and stores it as the strip's gain_db; a turn
\* with delta 0 sends nothing and leaves gain_db as it is.
C17_EncoderGainStep ==
    \A i \in Steps("gain_read") :
        LET want == Clamp(-25, 450, out[i].v + enc_delta * 10)
        IN  /\ \A j \in Steps("wing_setGain") :
                   /\ out[j].v = want
                   /\ channels[out[i].n].gain_db = want
            /\ enc_delta = 0 =>
                   /\ Steps("wing_setGain") = {}
                   /\ Steps("wing_setGain_failed") = {}
                   /\ channels[out[i].n].gain_db = out[i].v

\* the same for the deltas 1 and -1 alone
C17_SingleSteps ==
    \A i \in Steps("gain_read") :
        enc_delta \in {-1, 1} =>
            \A j \in Steps("wing_setGain") :
                /\ out[j].v = Clamp(-25, 450, out[i].v + enc_delta * 10)
                /\ channels[out[i].n].gain_db = out[j].v


\* a step of the encoder handler: the control change itself or one of the
\* handler's two routing queries
C18_InHandler ==
    \/ \E i \in DOMAIN out' : out'[i].op = "encoder_turn"
    \/ pc["midi"] \in {"enc_grp", "enc_in"} /\ pc'["midi"] # pc["midi"]

C18_Ops(ops) == {i \in DOMAIN out' : out'[i].op \in ops}

\* C18 (encoder failure handling): an encoder turn on a strip without a
\* console channel on the page calls nothing; one whose source does not
\* resolve sends no gain; and whenever no gain write has succeeded, the
\* strips are as before and no ring is written. gain_db and the ring change
\* only in a step with a successful write.
C18_Step ==
    C18_InHandler =>
        /\ \A i \in C18_Ops({"encoder_turn"}) :
               GainChannel(selected_page, out'[i].n) = 0 =>
                   /\ Len(out') = 1
                   /\ pc' = pc
                   /\ channels' = channels
        /\ (\E i \in C18_Ops({"query"}) :
                out'[i].k = "in" /\ (out'[i].v = NoneVal \/ src["midi"].grp = 0))
               => C18_Ops({"wing_setGain", "wing_setGain_failed"}) = {}
        /\ C18_Ops({"wing_setGain"}) = {} =>
               /\ channels' = channels
               /\ C18_Ops({"set_encoder_ring", "write_gain"}) = {}
        /\ selected_page' = selected_page
        /\ dmx_stored_values' = dmx_stored_values

C18_EncoderFailure == [][C18_Step]_vars

\* a gain write has failed and the strip keeps the gain read before it
C18_Witness ==
    \E i \in Steps("wing_setGain_failed"), j \in Steps("gain_read") :
        /\ out[i].v # out[j].v
        /\ channels[out[j].n].gain_db = out[j].v


\* C19 (button release): a note-off, or a note-on with velocity 0, of a rec,
\* solo, mute or select button calls nothing (no console write, no LED or
\* ring write), leaves the page and leaves every strip as it is.
C19_Step ==
    \A i \in {j \in DOMAIN out' :
                 out'[j].op \in {"rec", "solo", "mute", "select",
                                 "mute_press", "select_press"}} :
        ~(out'[i].type = "note_on" /\ out'[i].velocity > 0) =>
            /\ Len(out') = 1
            /\ channels' = channels
            /\ selected_page' = selected_page
            /\ dmx_stored_values' = dmx_stored_values
            /\ pc' = pc

C19_ButtonRelease == [][C19_Step]_vars

\* the select button of a strip has been released on another page
C19_Witness ==
    \E i \in Steps("select") :
        /\ out[i].type = "note_off"
        /\ selected_page # out[i].n - 1


\* the step in which a tick of sync_loop ends in its except clause
C20_Failed ==
    /\ pc["sync"] \notin {"sleep", "check", "check_reinit"}
    /\ \E i \in DOMAIN out' :
           /\ out'[i].op = "query"
           /\ out'[i].by = "sync"
           /\ out'[i].k \in {"ch_mute", "mtx_mute"}
           /\ out'[i].v = InfVal

C20_Checks == {i \in DOMAIN out' : out'[i].op = "check_connection"
                                      /\ out'[i].by = "sync"}

\* C20 (reconciliation error counter): sync_loop's counter is 0..2 whenever
\* a tick can start; a tick that raises adds one to it and, when that makes
\* 3, calls check_connection exactly once, after which the counter is 0; a
\* tick that completes sets it to 0; and after a failed tick the loop is
\* back at its sleep or in that one check, never stopped.
C20_Step ==
    /\ pc["sync"] = "sleep" => consecutive_errors \in 0..2
    /\ C20_Failed =>
           /\ consecutive_errors' = consecutive_errors + 1
           /\ IF consecutive_errors' = 3
              THEN /\ Cardinality(C20_Checks) = 1
                   /\ pc'["sync"] = "check"
              ELSE /\ C20_Checks = {}
                   /\ pc'["sync"] = "sleep"
    /\ (/\ ~C20_Failed
        /\ pc["sync"] # "sleep"
        /\ pc'["sync"] = "sleep") =>
           /\ consecutive_errors' = 0
           /\ C20_Checks = {}
    /\ (~C20_Failed /\ pc["sync"] # "sleep") =>
           \/ consecutive_errors' = consecutive_errors
           \/ pc'["sync"] = "sleep"

C20_ErrorCounter == [][C20_Step]_vars

\* a third failed tick in a row has called check_connection
C20_Witness ==
    /\ pc["sync"] = "check"
    /\ consecutive_errors = 3
    /\ \E i \in Steps("check_connection") : out[i].by = "sync"

\* the is_connected calls of main() in the step just taken, and its
\* calls of open
C21_Checks == {i \in DOMAIN out' : out'[i].op = "is_connected"
                                      /\ out'[i].by = "main"}

C21_Opens == {i \in DOMAIN out' : out'[i].op = "open" /\ out'[i].by = "main"}

C21_Step ==
    \A i \in C21_Checks :
        IF out'[i].v = 0
        THEN /\ Cardinality(C21_Opens) = 1
             /\ \A j \in C21_Opens :
                    xtouch_reconnect_attempts' =
                        IF out'[j].v = 1 THEN 0
                        ELSE IF xtouch_reconnect_attempts = 4 THEN 0
                        ELSE xtouch_reconnect_attempts + 1
        ELSE /\ C21_Opens = {}
             /\ xtouch_reconnect_attempts' = xtouch_reconnect_attempts

C22_CheckFailed ==
    \E i \in Steps("init_query_socket") : out[i].by = "main"

\* C22 (fail-safe blackout): after the supervisor step in which the periodic
\* console check failed, the shadow value of every lighting channel is 0 and
\* a zero command was written for it, whatever the state of the lighting
\* serial link was, and a reopen of the link was attempted.
C22_Blackout ==
    C22_CheckFailed =>
        /\ \A c \in DmxChannels :
               /\ dmx_stored_values[c] = 0
               /\ \E i \in Steps("dmx_write") :
                      /\ out[i].by = "main"
                      /\ out[i].n = c
                      /\ out[i].v = 0
        /\ \E i \in Steps("dmx_connect") : out[i].by = "main"

\* the path queries of main()'s check_connection in the step just taken
C23_Queries == {i \in DOMAIN out' : out'[i].op = "query"
                                       /\ out'[i].by = "main"
                                       /\ out'[i].k = "path"}

C23_Reinits == {i \in DOMAIN out' : out'[i].op = "init_query_socket"
                                       /\ out'[i].by = "main"}

\* C23 (check_connection path caching): check_connection queries the cached
\* path first and, if it answers, returns with the cache as it was; otherwise
\* it queries test paths 1..4 in that order, and the first that answers is
\* stored as the cached path, with the connection marked ok and the failure
\* counter 0; if none answers the connection is marked down, the cached path
\* is left as it was and the query socket is initialized again.
C23_Step ==
    /\ (pc["main"] = "sleep" /\ pc'["main"] = "check") =>
           cc_i'["main"] = IF working_query_path # 0 THEN 0 ELSE 1
    /\ \A i \in C23_Queries :
           /\ out'[i].n = cc_i["main"]
           /\ IF out'[i].v # NoneVal
              THEN /\ pc'["main"] = "sleep"
                   /\ C23_Reinits = {}
                   /\ working_query_path' =
                          IF out'[i].n = 0 THEN working_query_path
                          ELSE out'[i].n
                   /\ connection_ok'
                   /\ failed_queries' = 0
              ELSE /\ working_query_path' = working_query_path
                   /\ C23_Reinits = {}
                   /\ IF out'[i].n < NumTestPaths
                      THEN /\ pc'["main"] = "check"
                           /\ cc_i'["main"] = out'[i].n + 1
                      ELSE pc'["main"] = "check_reinit"
    /\ (pc["main"] = "check_reinit" /\ pc'["main"] # "check_reinit") =>
           /\ Cardinality(C23_Reinits) = 1
           /\ ~connection_ok'
           /\ working_query_path' = working_query_path
           /\ pc'["main"] = "sleep"

C23_PathCaching == [][C23_Step]_vars

\* the cached path and the first two test paths did not answer, the third
\* did and is the cached path now
C23_Witness ==
    /\ working_query_path = 3
    /\ failed_queries = 0
    /\ connection_ok
    /\ pc["main"] = "sleep"
    /\ \E i \in Steps("query") :
           out[i].by = "main" /\ out[i].k = "path" /\ out[i].n = 3
               /\ out[i].v # NoneVal

\* the queries that ended in the step just taken
C24_Queries == {i \in DOMAIN out' : out'[i].op = "query"}

\* C24 (query failure accounting): a query that times out returns None and
\* changes nothing of the client but _failed_queries, which goes up by
\* exactly 1 (the connection-ok flag and the cached path stay, the lock is
\* free again); a query that gets a reply sets _failed_queries to 0 and the
\* connection-ok flag.
C24_Step ==
    \A i \in C24_Queries :
        IF out'[i].how = "timeout"
        THEN /\ out'[i].v = NoneVal
             /\ failed_queries' = failed_queries + 1
             /\ connection_ok' = connection_ok
             /\ working_query_path' = working_query_path
             /\ socket_lock' = "none"
        ELSE /\ out'[i].v # NoneVal
             /\ failed_queries' = 0
             /\ connection_ok'

C24_FailureAccounting == [][C24_Step]_vars

\* a third query in a row has timed out and the counter is 3
C24_Witness ==
    /\ failed_queries = 3
    /\ \E i \in Steps("query") : out[i].how = "timeout"

\* the mute queries that timed out in the step just taken
C25_Timeouts == {i \in DOMAIN out' : /\ out'[i].op = "query"
                                        /\ out'[i].k \in {"ch_mute", "mtx_mute"}
                                        /\ out'[i].how = "timeout"}

\* C25 (mute read timeout): when a mute query of a tick or of a page refresh
\* times out, the strip's mute LED is not written in that cycle, and nothing
\* changes but the client's failure counter.
C25_Step ==
    \A i \in C25_Timeouts :
        /\ \A j \in DOMAIN out' :
               out'[j].op = "set_led_mute" => out'[j].n # out'[i].ch
        /\ failed_queries' = failed_queries + 1
        /\ UNCHANGED <<selected_page, channels, connection_ok,
                       working_query_path, dmxVars>>

C25_MuteTimeout == [][C25_Step]_vars

\* the step just taken is a whole tick of sync_loop on page 3
C26_Tick ==
    /\ ticks_left' = ticks_left - 1
    /\ is_connected
    /\ selected_page = 3
    /\ pc'["sync"] = "sleep"

\* C26 (lighting reconciliation): a tick on page 3 reads the lighting value
\* of every strip's channel and, for an untouched strip whose lighting value
\* differs from lastStableValue by more than 15, sets the surface fader to
\* it and stores it in faderValue and lastStableValue.
C26_Step ==
    C26_Tick =>
        \A ch \in Strips :
            (/\ ~channels[ch].is_touched
             /\ Abs(getDMX(ch) - channels[ch].last_stable_value)
                    > FADER_DEADBAND) =>
                /\ \E i \in DOMAIN out' :
                       /\ out'[i].op = "set_fader"
                       /\ out'[i].by = "sync"
                       /\ out'[i].n = ch
                       /\ out'[i].v = getDMX(ch)
                /\ channels'[ch].fader_value = getDMX(ch)
                /\ channels'[ch].last_stable_value = getDMX(ch)

C26_LightingReconciliation == [][C26_Step]_vars

\* the gain queries of sync_loop that ended in the step just taken, and the
\* ring writes of that step
C27_Gains == {i \in DOMAIN out' : /\ out'[i].op = "query"
                                     /\ out'[i].by = "sync"
                                     /\ out'[i].k = "gain"}

C27_Rings == {i \in DOMAIN out' : /\ out'[i].op = "set_encoder_ring"
                                     /\ out'[i].by = "sync"}

\* C27 (gain ring mirroring): in a tick, a strip's encoder ring is written
\* and its gainDb set to the gain read if and only if the strip has a console
\* channel, its source and gain were read, and the gain differs from the
\* stored gainDb by more than 0.5 dB; in every other step of the tick no
\* ring is written and no gainDb changes.
C27_Step ==
    /\ \A i \in C27_Gains :
           LET ch == out'[i].ch
               gain == getGain(out'[i].v)
               differs == /\ gain # NoneVal
                          /\ Abs(gain - channels[ch].gain_db) > 5
           IN  /\ GainChannel(tick_page, ch) # 0
               /\ differs <=> \E j \in C27_Rings : out'[j].n = ch
               /\ channels'[ch].gain_db =
                      IF differs THEN gain ELSE channels[ch].gain_db
    /\ \A j \in C27_Rings :
           /\ \E i \in C27_Gains : out'[i].ch = out'[j].n
           /\ out'[j].v = RingValue(channels'[out'[j].n].gain_db)
    /\ \A c \in Strips :
           channels'[c].gain_db # channels[c].gain_db =>
               \E i \in C27_Gains : out'[i].ch = c

C27_GainMirror == [][C27_Step]_vars

\* a gain of 45.0 dB was read for a strip that stores 44.5 dB, and the step
\* wrote nothing
C27_Witness ==
    \E i \in Steps("query") :
        /\ out[i].by = "sync"
        /\ out[i].k = "gain"
        /\ getGain(out[i].v) = 450
        /\ channels[out[i].ch].gain_db = 445
        /\ Steps("set_encoder_ring") = {}

\* the calls of sendDMX and of getDMX recorded for the step just taken
C28_Sends == {i \in DOMAIN out' : out'[i].op = "sendDMX"}

C28_Writes == {i \in DOMAIN out' : out'[i].op = "dmx_write"}

C28_Gets == {i \in DOMAIN out' : out'[i].op = "getDMX"}

\* C28 (lighting sink shadow): sendDMX(channel, v) with the serial link not
\* open writes nothing and leaves the whole shadow array as it is; with the
\* link open and v in 0..1000 it writes one command, for that channel with
\* the value floor(v * 255 / 1000), sets the shadow of the channel to v and
\* leaves every other channel's shadow, and getDMX(channel) after it
\* returns v.
C28_Step ==
    \A i \in C28_Sends :
        LET channel == out'[i].n
            v == out'[i].v
        IN  IF C28_Gets = {}
            THEN IF ~dmx_open
                 THEN /\ C28_Writes = {}
                      /\ dmx_stored_values' = dmx_stored_values
                 ELSE v \in 0..1000 =>
                      /\ Cardinality(C28_Writes) = 1
                      /\ \A j \in C28_Writes :
                             /\ out'[j].n = channel
                             /\ out'[j].v * 1000 <= v * 255
                             /\ v * 255 < (out'[j].v + 1) * 1000
                      /\ dmx_stored_values'[channel] = v
                      /\ \A c \in DmxChannels \ {channel} :
                             dmx_stored_values'[c] = dmx_stored_values[c]
            ELSE \A j \in C28_Gets :
                     (out'[j].n = channel /\ dmx_open /\ v \in 0..1000) =>
                         out'[j].v = v

C29_Decode ==
    /\ \A pitch \in (-PITCH_OFFSET)..(PITCH_OFFSET - 1) :
           PitchToFader(pitch) \in FADER_MIN..FADER_MAX
    /\ \A raw \in CurveReplies : getFader(raw) \in FADER_MIN..FADER_MAX

\* C29 (strip range): after any sequence of pitch-bend messages, ticks, page
\* switches and reconnect refreshes every strip's faderValue and
\* lastStableValue is in 0..1000.
C29_StripRange ==
    /\ \A c \in Strips :
           /\ channels[c].fader_value \in 0..1000
           /\ channels[c].last_stable_value \in 0..1000
    /\ C29_Decode

\* a strip holds the top position 1000, decoded from pitch 8191, and the
\* console's 516 from a tick or a refresh
C29_Witness ==
    \E c \in Strips :
        /\ channels[c].last_stable_value = 1000
        /\ channels[c].fader_value = 516

\* the pitch-bend message handled in the step just taken is the echo of a
\* set_fader of the loop on strip 5 or 7 of page 0
C30_Echo ==
    /\ selected_page = 0
    /\ \E e \in echo \ echo' : e.ch \in {5, 7}

\* C30 (no echo feedback): on page 0 the pitch-bend message that strip 5 or
\* 7 sends in answer to the loop's own set_fader, a position within 1 unit
\* of the one set, never leads to a console fader-set, wherever the inbound
\* handler runs between the loop's set_fader and its update of
\* lastStableValue.
C30_Step ==
    C30_Echo =>
        \A i \in DOMAIN out' : out'[i].op # "wing_setFader"

C30_NoEchoFeedback == [][C30_Step]_vars

\* C31 (bounded surface drift): when a reconciliation step has read the
\* remote value r of an untouched strip with a console target, the position
\* last sent to that strip's motor fader, if any was sent, differs from r by
\* at most the deadband 15; the loop sends the strip nothing more in that
\* tick, so this is the strip's state at the end of the tick.
C31_Step ==
    \A i \in DOMAIN out' :
        out'[i].op = "recon" =>
            LET ch == out'[i].n
            IN  sent_fader'[ch] # NoneVal =>
                    Abs(sent_fader'[ch] - out'[i].v) <= FADER_DEADBAND

C31_BoundedDrift == [][C31_Step]_vars

\* the select presses handled in the step just taken
C32_Presses == {i \in DOMAIN out' : out'[i].op = "select_press"}

\* the page follows the strip of the press and nothing else changes it
C32_Step ==
    /\ \A i \in C32_Presses : selected_page' = out'[i].n - 1
    /\ C32_Presses = {} => selected_page' = selected_page

\* C32 (selected page range), as the code has it: a select press on strip
\* ch of 1..8 sets selectedPage to ch - 1 and nothing else changes it, so
\* after any sequence of select presses selectedPage is one of 0..7, of
\* which 4..7 are not defined pages.
C32_SelectedPage ==
    /\ [][C32_Step]_vars
    /\ [](selected_page \in 0..(NumStrips - 1))

\* a press on strip 8 has set page 7
C32_Witness ==
    /\ \E i \in DOMAIN out : out[i].op = "select_press" /\ out[i].n = 8
    /\ selected_page = 7

\* C32 as stated: selectedPage is always one of the defined pages 0..3.
C32_DefinedPage == selected_page \in 0..3

\* C33 (socket reinitialization safety): when a failed check_connection
\* closes and replaces the query socket, no other thread is between the
\* sendto and the end of the recvfrom of a query on that socket.
C33_Step ==
    \A i \in DOMAIN out' :
        out'[i].op = "init_query_socket" => inflight \ {out'[i].by} = {}

C33_ReinitSafety == [][C33_Step]_vars

\* the step just taken has written the select LED of every strip
C34_AllWritten ==
    \A c \in Strips :
        \E i \in DOMAIN out : out[i].op = "set_led_select" /\ out[i].n = c

\* the strips whose select LED the step just taken has left lit
C34_Lit ==
    {c \in Strips :
        LET s == {i \in DOMAIN out :
                     out[i].op = "set_led_select" /\ out[i].n = c}
        IN  s # {} /\ out[CHOOSE i \in s : \A j \in s : j <= i].v = 1}

\* the page whose labels the step just taken has left on the displays
C34_Labels ==
    LET s == {i \in DOMAIN out : out[i].op = "update_page_display"}
    IN  out[CHOOSE i \in s : \A j \in s : j <= i].n

\* C34 (single select LED): after a select press and after a successful
\* surface reconnect, exactly one select LED is lit, the one of strip
\* selectedPage + 1, and the displays show the labels of selectedPage.
C34_SingleSelectLed ==
    C34_AllWritten =>
        /\ C34_Lit = {selected_page + 1}
        /\ C34_Labels = selected_page

\* C35 (pitch-bend round trip): for every position v of 0..1000, set_fader
\* sends a pitch of -8192..8191, equal to floor(v * 16383 / 1000) - 8192,
\* and the callback decodes a message with that pitch to v - 1 or v.
C35_PitchRoundTrip ==
    \A i \in DOMAIN out :
        /\ (out[i].op = "set_fader" /\ out[i].v \in FADER_MIN..FADER_MAX) =>
               /\ out[i].pitch \in (-8192)..8191
               /\ out[i].pitch = ((out[i].v * 16383) \div 1000) - 8192
        /\ (out[i].op = "pitchwheel" /\ out[1].v \in FADER_MIN..FADER_MAX) =>
               /\ out[i].pitch = out[1].pitch
               /\ out[i].v \in {out[1].v - 1, out[1].v}

\* position 500 has gone out as pitch -1 and come back as 499
C35_Witness ==
    /\ Len(out) = 2
    /\ out[1].op = "set_fader" /\ out[1].v = 500 /\ out[1].pitch = -1
    /\ out[2].op = "pitchwheel" /\ out[2].v = 499

====
